---- MODULE Spec2Model ----
(***************************************************************************)
(* Chunk streaming / LOD engine of src/src/engine/terrainEngine.ts         *)
(* (class TerrainEngine): the resident chunk map, the pending queue, the   *)
(* pending key set, the cached focus chunk, and the handlers that change   *)
(* them (constructor, animate, updateParams, dispose).                     *)
(*                                                                         *)
(* The repository's other programs follow, each with its own variables and *)
(* its own specification: the pure functions of the engine applied to      *)
(* drawn inputs, the noise field (SimplexNoise2D, TerrainField), and the   *)
(* sprint board command line of src/scripts/sprint-board.mjs.  A           *)
(* specification leaves the variables of the programs it does not run at   *)
(* their idle values.                                                      *)
(***************************************************************************)
EXTENDS Integers, Sequences, FiniteSets, TLC

VARIABLES
    chunks,               \* Map<string, Chunk>: key -> chunk
    chunkQueue,           \* ChunkRequest[]
    pendingChunkKeys,     \* Set<string>
    currentChunkX,        \* cached focus chunk, NaN when invalidated
    currentChunkZ,
    params,               \* TerrainParams: seed and mode
    terrainField,         \* the seed the current TerrainField was built from
    orbitTarget,          \* <<x, z>> world position
    firstPersonPosition,  \* <<x, z>> world position
    disposed,
    cameraOrbiting,       \* cameraPosition was last set by updateCamera in orbit mode
    frameHandle,          \* TRUE while an animation frame is requested
    moves,                \* focus movements made so far (bounded by MaxMoves)
    glLost,               \* the WebGL context is lost: buffer creation returns null
    focusHeld,            \* no sync has seen a new focus chunk since construction / reset
    last,                 \* what the last handler did
    call,                 \* a pure function applied to drawn arguments: the call
    result,               \* ... and what it returned
    fields,               \* the TerrainField instances constructed so far
    samples,              \* the sampleHeight calls made so far, with their results
    stateFile,            \* sprint board: the content of sprint-state.json
    cli,                  \* sprint board: exit status and output of the last command
    pool                  \* parallel runner: the run of runWithWorkerPool

engineVars == <<chunks, chunkQueue, pendingChunkKeys, currentChunkX, currentChunkZ,
                params, terrainField, orbitTarget, firstPersonPosition, disposed,
                cameraOrbiting, frameHandle, moves, glLost, focusHeld, last>>

probeVars == <<call, result>>

noiseVars == <<fields, samples>>

boardVars == <<stateFile, cli>>

runnerVars == <<pool>>

vars == <<engineVars, probeVars, noiseVars, boardVars, runnerVars>>

\* no pure function is being applied
NoCall == [fn |-> "none", args |-> <<>>]

NoResult == <<>>

ProbeIdle == call = NoCall /\ result = NoResult

\* no TerrainField has been constructed
NoiseIdle == fields = <<>> /\ samples = <<>>

\* no sprint board command has run and there is no state file
NoFile == [projectPrefix |-> "", tasks |-> <<>>, updatedAt |-> 0]

NoOutput == [command |-> "none", argv |-> <<>>, status |-> 0, out |-> <<>>]

BoardIdle == stateFile = NoFile /\ cli = NoOutput

\* runWithWorkerPool has not been called
NoPool == [phase |-> "none", items |-> <<>>, maxWorkers |-> 0, cursor |-> 0,
           results |-> <<>>, workers |-> <<>>, started |-> <<>>, returned |-> <<>>]

RunnerIdle == pool = NoPool

----------------------------------------------------------------------------
(* Program constants *)

chunkSize == 96

chunkRadius == 3

\* processChunkQueue(3) in animate
FrameBudget == 3

\* Number.NaN, the invalidated cached chunk coordinate
NaN == -1000000

Modes == {"orbit", "firstPerson"}

Seeds == {"terra-core-001", "demo"}

InitialSeed == "terra-core-001"

InitialOrbitTarget == <<-46, 28>>

InitialFirstPersonPosition == <<-12, 126>>

----------------------------------------------------------------------------
(* Bounds of the model *)

\* focus movements (first-person steps and mode switches) in one run
MaxMoves == 1

\* largest maxPerFrame tried when processChunkQueue is applied to a state
MaxBudget == 3

\* most createChunk calls that succeed in a handler before one fails
MaxBuiltBeforeFailure == 1

\* largest ring distance lodForDistance is applied to
MaxDistance == 9

\* most tasks in the sprint board's state file
MaxTasks == 2

\* most times one task is moved to Failed
MaxFailCount == 1

\* net first-person displacement over one frame (speed 68, deltaSeconds <= 0.1)
Steps == {<<0, 0>>, <<-6, 0>>}

\* orbit camera offsets from the orbit target (yaw, pitch, distance are user input)
CamOffsets == {<<-174, -187>>, <<-60, 0>>}

----------------------------------------------------------------------------
(* Helpers *)

Abs(v) == IF v < 0 THEN -v ELSE v

Max(a, b) == IF a >= b THEN a ELSE b

\* Math.floor(v / this.chunkSize)
ChunkCoord(v) == v \div chunkSize

\* `${x},${z}`
KeyOf(x, z) == <<x, z>>

\* Math.max(Math.abs(x - cx), Math.abs(z - cz)); NaN when the cached chunk is NaN
ChebDistance(x, z, cx, cz) ==
    IF cx = NaN \/ cz = NaN THEN NaN
    ELSE Max(Abs(x - cx), Abs(z - cz))

\* lodForDistance with the two outer tiers exchanged
lodOuterTiersSwapped(distance) ==
    IF distance # NaN /\ distance <= 1 THEN 52
    ELSE IF distance = 2 THEN 18
    ELSE 30

lodForDistance(distance) ==
    IF distance # NaN /\ distance <= 1 THEN 52
    ELSE IF distance = 2 THEN 30
    ELSE 18

\* the focus vector syncChunks reads
Focus(mode, orbit, fp) == IF mode = "orbit" THEN orbit ELSE fp

EmptyMap == <<>>

\* Map.set(key, value)
Put(map, key, value) == (key :> value) @@ map

----------------------------------------------------------------------------
(* The streamer's methods, as functions of an execution record e:          *)
(*   chunks, chunkQueue, pendingChunkKeys, currentChunkX, currentChunkZ    *)
(*     the engine fields;                                                  *)
(*   field     the TerrainField (its seed) createChunk samples;            *)
(*   glLeft    how many more createChunk calls get their GPU buffers       *)
(*             (-1: all of them);                                          *)
(*   created, released, popped, discarded                                  *)
(*             createChunk calls that returned, disposeChunk calls, the    *)
(*             distance fields of the requests shifted off the queue, and  *)
(*             how many of those were dropped, in this handler;            *)
(*   alreadyResident                                                       *)
(*             how many were dropped because their key was resident;       *)
(*   disposedChunks                                                        *)
(*             the chunks handed to disposeChunk in this handler, as they  *)
(*             were when handed over;                                      *)
(*   threw, failedKey                                                      *)
(*             createChunk threw, and for which request.                   *)
(***************************************************************************)

NoKey == <<NaN, NaN>>

Exec(c, q, p, cx, cz, field, glLeft) ==
    [chunks |-> c, chunkQueue |-> q, pendingChunkKeys |-> p,
     currentChunkX |-> cx, currentChunkZ |-> cz, field |-> field,
     glLeft |-> glLeft, created |-> 0, released |-> 0, disposedChunks |-> {},
     popped |-> <<>>, discarded |-> 0, alreadyResident |-> 0, threw |-> FALSE,
     failedKey |-> NoKey]

\* gl.createVertexArray() / gl.createBuffer() returned null
GlExhausted(e) == e.glLeft = 0

\* the Chunk createChunk returns (its geometry is sampled from the field); live
\* says that its vertex array and buffers exist
createChunk(request, field) ==
    [key |-> request.key, chunkX |-> request.chunkX, chunkZ |-> request.chunkZ,
     lod |-> request.lod, field |-> field, live |-> TRUE]

\* disposeChunk: gl.deleteVertexArray, gl.deleteBuffer, gl.deleteBuffer
disposeChunk(chunk) == [chunk EXCEPT !.live = FALSE]

\* the chunks of map c that are no longer in map kept as they were
Gone(c, kept) ==
    {c[k] : k \in {j \in DOMAIN c : j \notin DOMAIN kept \/ kept[j] # c[j]}}

\* every value of the map c
Values(c) == {c[k] : k \in DOMAIN c}

\* DesiredRequests with the inner loop stopping one column early (dx < chunkRadius)
DesiredRequestsShortRow(chunkX, chunkZ) ==
    [i \in 1..((2 * chunkRadius + 1) * (2 * chunkRadius)) |->
        LET dz == ((i - 1) \div (2 * chunkRadius)) - chunkRadius
            dx == ((i - 1) % (2 * chunkRadius)) - chunkRadius
            distance == Max(Abs(dx), Abs(dz))
        IN  [key |-> KeyOf(chunkX + dx, chunkZ + dz),
             chunkX |-> chunkX + dx, chunkZ |-> chunkZ + dz,
             lod |-> lodForDistance(distance), distance |-> distance]]

\* the desired map of syncChunks, in insertion order (dz outer, dx inner)
DesiredWidth == 2 * chunkRadius + 1

DesiredRequests(chunkX, chunkZ) ==
    [i \in 1..(DesiredWidth * DesiredWidth) |->
        LET dz == ((i - 1) \div DesiredWidth) - chunkRadius
            dx == ((i - 1) % DesiredWidth) - chunkRadius
            distance == Max(Abs(dx), Abs(dz))
        IN  [key |-> KeyOf(chunkX + dx, chunkZ + dz),
             chunkX |-> chunkX + dx, chunkZ |-> chunkZ + dz,
             lod |-> lodForDistance(distance), distance |-> distance]]

\* Evict that releases the unwanted chunks but leaves their map entries
\* (disposeChunk without this.chunks.delete)
EvictKeepEntry(c, desired) ==
    LET wanted == {desired[i] : i \in DOMAIN desired}
        keep == {k \in DOMAIN c :
                    \E r \in wanted : r.key = k /\ r.lod = c[k].lod}
    IN  [k \in DOMAIN c |-> IF k \in keep THEN c[k] ELSE disposeChunk(c[k])]

\* Evict that drops every resident chunk, so that the whole ring is rebuilt
EvictAll(c, desired) ==
    EmptyMap

\* Evict that removes only the chunks that left the radius, keeping a chunk whose
\* ring, and so whose LOD, changed
EvictOutOfRadiusOnly(c, desired) ==
    LET wanted == {desired[i] : i \in DOMAIN desired}
        keep == {k \in DOMAIN c : \E r \in wanted : r.key = k}
    IN  [k \in keep |-> c[k]]

\* an eviction loop that deletes nothing
EvictNothing(c, desired) == c

\* eviction loop of syncChunks: keep a chunk only if it is wanted at its lod
Evict(c, desired) ==
    LET wanted == {desired[i] : i \in DOMAIN desired}
        keep == {k \in DOMAIN c :
                    \E r \in wanted : r.key = k /\ r.lod = c[k].lod}
    IN  [k \in keep |-> c[k]]

\* Admit building synchronously only the focus tile (request.distance < 1)
RECURSIVE AdmitFocusTileOnly(_, _, _, _)
AdmitFocusTileOnly(e, desired, i, generateImmediate) ==
    IF i > Len(desired) THEN e
    ELSE
      LET request == desired[i]
          key == request.key
      IN  IF key \in DOMAIN e.chunks /\ e.chunks[key].lod = request.lod
            THEN AdmitFocusTileOnly(e, desired, i + 1, generateImmediate)
          ELSE IF key \in e.pendingChunkKeys
            THEN AdmitFocusTileOnly(e, desired, i + 1, generateImmediate)
          ELSE IF generateImmediate /\ request.distance < 1
            THEN AdmitFocusTileOnly(
                     [e EXCEPT !.chunks = Put(@, key, createChunk(request, e.field)),
                               !.created = @ + 1],
                     desired, i + 1, generateImmediate)
          ELSE AdmitFocusTileOnly(
                   [e EXCEPT !.pendingChunkKeys = @ \cup {key},
                             !.chunkQueue = Append(@, request)],
                   desired, i + 1, generateImmediate)

\* Admit without the pendingChunkKeys.has(request.key) guard
RECURSIVE AdmitNoPendingCheck(_, _, _, _)
AdmitNoPendingCheck(e, desired, i, generateImmediate) ==
    IF i > Len(desired) THEN e
    ELSE
      LET request == desired[i]
          key == request.key
      IN  IF key \in DOMAIN e.chunks /\ e.chunks[key].lod = request.lod
            THEN AdmitNoPendingCheck(e, desired, i + 1, generateImmediate)
          ELSE IF generateImmediate /\ request.distance <= 1
            THEN AdmitNoPendingCheck(
                     [e EXCEPT !.chunks = Put(@, key, createChunk(request, e.field)),
                               !.created = @ + 1],
                     desired, i + 1, generateImmediate)
          ELSE AdmitNoPendingCheck(
                   [e EXCEPT !.pendingChunkKeys = @ \cup {key},
                             !.chunkQueue = Append(@, request)],
                   desired, i + 1, generateImmediate)

\* Admit whose immediate build leaves the key in pendingChunkKeys
RECURSIVE AdmitKeepPending(_, _, _, _)
AdmitKeepPending(e, desired, i, generateImmediate) ==
    IF i > Len(desired) THEN e
    ELSE
      LET request == desired[i]
          key == request.key
      IN  IF key \in DOMAIN e.chunks /\ e.chunks[key].lod = request.lod
            THEN AdmitKeepPending(e, desired, i + 1, generateImmediate)
          ELSE IF key \in e.pendingChunkKeys
            THEN AdmitKeepPending(e, desired, i + 1, generateImmediate)
          ELSE IF generateImmediate /\ request.distance <= 1
            THEN AdmitKeepPending(
                     [e EXCEPT !.chunks = Put(@, key, createChunk(request, e.field)),
                               !.pendingChunkKeys = @ \cup {key},
                               !.created = @ + 1],
                     desired, i + 1, generateImmediate)
          ELSE AdmitKeepPending(
                   [e EXCEPT !.pendingChunkKeys = @ \cup {key},
                             !.chunkQueue = Append(@, request)],
                   desired, i + 1, generateImmediate)

\* admission loop of syncChunks, from the i-th desired request on
RECURSIVE Admit(_, _, _, _)
Admit(e, desired, i, generateImmediate) ==
    IF i > Len(desired) THEN e
    ELSE
      LET request == desired[i]
          key == request.key
      IN  IF key \in DOMAIN e.chunks /\ e.chunks[key].lod = request.lod
            THEN Admit(e, desired, i + 1, generateImmediate)
          ELSE IF key \in e.pendingChunkKeys
            THEN Admit(e, desired, i + 1, generateImmediate)
          ELSE IF generateImmediate /\ request.distance <= 1
            THEN IF GlExhausted(e)
                   THEN [e EXCEPT !.pendingChunkKeys = @ \cup {key},
                                  !.threw = TRUE, !.failedKey = key]
                   ELSE Admit([e EXCEPT
                                 !.chunks = Put(@, key, createChunk(request, e.field)),
                                 !.glLeft = IF @ > 0 THEN @ - 1 ELSE @,
                                 !.created = @ + 1],
                              desired, i + 1, generateImmediate)
          ELSE Admit([e EXCEPT !.pendingChunkKeys = @ \cup {key},
                               !.chunkQueue = Append(@, request)],
                     desired, i + 1, generateImmediate)

\* the queue left in enqueue order (the sort dropped)
Unsorted(q) == q

\* Array.prototype.sort with (a, b) => a.distance - b.distance: a stable sort.
\* Every queued distance is one of 0..chunkRadius (DesiredRequests sets it), so
\* the stable order is the requests of distance 0 in queue order, then those of
\* distance 1, and so on.
RECURSIVE SortFrom(_, _)
SortFrom(q, d) ==
    IF d > chunkRadius THEN <<>>
    ELSE LET AtDistance(r) == r.distance = d
         IN  SelectSeq(q, AtDistance) \o SortFrom(q, d + 1)

SortByDistance(q) == SortFrom(q, 0)

\* syncChunks without the early return for an unchanged focus chunk
syncChunksEveryCall(e, focus, generateImmediate) ==
    LET chunkX == ChunkCoord(focus[1])
        chunkZ == ChunkCoord(focus[2])
        desired == DesiredRequests(chunkX, chunkZ)
        kept == Evict(e.chunks, desired)
        evicted == [e EXCEPT
                      !.currentChunkX = chunkX,
                      !.currentChunkZ = chunkZ,
                      !.released = @ + Cardinality(Gone(e.chunks, kept)),
                      !.disposedChunks = @ \cup Gone(e.chunks, kept),
                      !.chunks = kept]
        admitted == Admit(evicted, desired, 1, generateImmediate)
    IN  IF admitted.threw THEN admitted
        ELSE [admitted EXCEPT !.chunkQueue = SortByDistance(@)]

\* syncChunks(generateImmediate) with the focus at world position focus
syncChunks(e, focus, generateImmediate) ==
    LET chunkX == ChunkCoord(focus[1])
        chunkZ == ChunkCoord(focus[2])
    IN  IF ~generateImmediate /\ chunkX = e.currentChunkX /\ chunkZ = e.currentChunkZ
          THEN e
          ELSE
            LET desired == DesiredRequests(chunkX, chunkZ)
                kept == Evict(e.chunks, desired)
                evicted == [e EXCEPT
                              !.currentChunkX = chunkX,
                              !.currentChunkZ = chunkZ,
                              !.released = @ + Cardinality(Gone(e.chunks, kept)),
                              !.disposedChunks = @ \cup Gone(e.chunks, kept),
                              !.chunks = kept]
                admitted == Admit(evicted, desired, 1, generateImmediate)
            IN  IF admitted.threw THEN admitted
                ELSE [admitted EXCEPT !.chunkQueue = SortByDistance(@)]

\* ProcessLoop counting popped requests wrongly: the loop runs while
\* generated <= maxPerFrame
RECURSIVE ProcessLoopOneMore(_, _, _)
ProcessLoopOneMore(e, maxPerFrame, generated) ==
    IF ~(generated <= maxPerFrame /\ Len(e.chunkQueue) > 0) THEN e
    ELSE
      LET request == Head(e.chunkQueue)
          shifted == [e EXCEPT !.chunkQueue = Tail(@),
                               !.popped = Append(@, request.distance)]
          distance == ChebDistance(request.chunkX, request.chunkZ,
                                   e.currentChunkX, e.currentChunkZ)
      IN  IF (distance # NaN /\ distance > chunkRadius)
               \/ lodForDistance(distance) # request.lod
               \/ request.key \in DOMAIN e.chunks
            THEN ProcessLoopOneMore([shifted EXCEPT
                                       !.pendingChunkKeys = @ \ {request.key},
                                       !.discarded = @ + 1],
                                    maxPerFrame, generated)
          ELSE ProcessLoopOneMore([shifted EXCEPT
                                     !.chunks = Put(@, request.key,
                                                    createChunk(request, e.field)),
                                     !.pendingChunkKeys = @ \ {request.key},
                                     !.created = @ + 1],
                                  maxPerFrame, generated + 1)

\* ProcessLoop leaving the key of a discarded request in pendingChunkKeys
RECURSIVE ProcessLoopKeepDiscarded(_, _, _)
ProcessLoopKeepDiscarded(e, maxPerFrame, generated) ==
    IF ~(generated < maxPerFrame /\ Len(e.chunkQueue) > 0) THEN e
    ELSE
      LET request == Head(e.chunkQueue)
          shifted == [e EXCEPT !.chunkQueue = Tail(@),
                               !.popped = Append(@, request.distance)]
          distance == ChebDistance(request.chunkX, request.chunkZ,
                                   e.currentChunkX, e.currentChunkZ)
      IN  IF (distance # NaN /\ distance > chunkRadius)
               \/ lodForDistance(distance) # request.lod
               \/ request.key \in DOMAIN e.chunks
            THEN ProcessLoopKeepDiscarded([shifted EXCEPT !.discarded = @ + 1],
                                          maxPerFrame, generated)
          ELSE ProcessLoopKeepDiscarded(
                   [shifted EXCEPT
                      !.chunks = Put(@, request.key, createChunk(request, e.field)),
                      !.pendingChunkKeys = @ \ {request.key},
                      !.created = @ + 1],
                   maxPerFrame, generated + 1)

\* processChunkQueue(maxPerFrame); generated is the loop's counter
RECURSIVE ProcessLoop(_, _, _)
ProcessLoop(e, maxPerFrame, generated) ==
    IF ~(generated < maxPerFrame /\ Len(e.chunkQueue) > 0) THEN e
    ELSE
      LET request == Head(e.chunkQueue)
          shifted == [e EXCEPT !.chunkQueue = Tail(@),
                               !.popped = Append(@, request.distance)]
          distance == ChebDistance(request.chunkX, request.chunkZ,
                                   e.currentChunkX, e.currentChunkZ)
      IN  IF (distance # NaN /\ distance > chunkRadius)
               \/ lodForDistance(distance) # request.lod
            THEN ProcessLoop([shifted EXCEPT
                                !.pendingChunkKeys = @ \ {request.key},
                                !.discarded = @ + 1],
                             maxPerFrame, generated)
          ELSE IF request.key \in DOMAIN e.chunks
            THEN ProcessLoop([shifted EXCEPT
                                !.pendingChunkKeys = @ \ {request.key},
                                !.discarded = @ + 1,
                                !.alreadyResident = @ + 1],
                             maxPerFrame, generated)
          ELSE IF GlExhausted(e)
            THEN [shifted EXCEPT !.threw = TRUE, !.failedKey = request.key]
          ELSE ProcessLoop([shifted EXCEPT
                              !.chunks = Put(@, request.key,
                                             createChunk(request, e.field)),
                              !.pendingChunkKeys = @ \ {request.key},
                              !.glLeft = IF @ > 0 THEN @ - 1 ELSE @,
                              !.created = @ + 1],
                           maxPerFrame, generated + 1)

processChunkQueue(e, maxPerFrame) == ProcessLoop(e, maxPerFrame, 0)

\* resetChunks that forgets this.chunks.clear(): chunks of the right LOD survive
resetChunksKeepChunks(e, focus) ==
    syncChunks([e EXCEPT !.chunkQueue = <<>>,
                         !.pendingChunkKeys = {},
                         !.currentChunkX = NaN,
                         !.currentChunkZ = NaN],
               focus, TRUE)

\* resetChunks that forgets this.chunkQueue.length = 0
resetChunksKeepQueue(e, focus) ==
    syncChunks([e EXCEPT !.released = @ + Cardinality(DOMAIN e.chunks),
                         !.disposedChunks = @ \cup Values(e.chunks),
                         !.chunks = EmptyMap,
                         !.pendingChunkKeys = {},
                         !.currentChunkX = NaN,
                         !.currentChunkZ = NaN],
               focus, TRUE)

\* resetChunks()
resetChunks(e, focus) ==
    syncChunks([e EXCEPT !.released = @ + Cardinality(DOMAIN e.chunks),
                         !.disposedChunks = @ \cup Values(e.chunks),
                         !.chunks = EmptyMap,
                         !.chunkQueue = <<>>,
                         !.pendingChunkKeys = {},
                         !.currentChunkX = NaN,
                         !.currentChunkZ = NaN],
               focus, TRUE)

----------------------------------------------------------------------------
(* Handlers *)

\* the execution record of the engine's current fields
Current(field, glLeft) ==
    Exec(chunks, chunkQueue, pendingChunkKeys, currentChunkX, currentChunkZ,
         field, IF glLost THEN 0 ELSE glLeft)

\* what a handler leaves in `last`
Report(op, e, coalesced, reset) ==
    [op |-> op, created |-> e.created, released |-> e.released,
     disposedChunks |-> e.disposedChunks, popped |-> e.popped,
     discarded |-> e.discarded, alreadyResident |-> e.alreadyResident,
     threw |-> e.threw,
     failedKey |-> e.failedKey, coalesced |-> coalesced, reset |-> reset]

Store(e) ==
    /\ chunks' = e.chunks
    /\ chunkQueue' = e.chunkQueue
    /\ pendingChunkKeys' = e.pendingChunkKeys
    /\ currentChunkX' = e.currentChunkX
    /\ currentChunkZ' = e.currentChunkZ

\* constructor: updateCamera(0), syncChunks(true), requestAnimationFrame
Constructed(mode) ==
    syncChunks(Exec(EmptyMap, <<>>, {}, NaN, NaN, InitialSeed, -1),
               Focus(mode, InitialOrbitTarget, InitialFirstPersonPosition), TRUE)

Init ==
    /\ ProbeIdle /\ NoiseIdle /\ BoardIdle /\ RunnerIdle
    /\ params \in [seed : {InitialSeed}, mode : Modes]
    /\ terrainField = InitialSeed
    /\ orbitTarget = InitialOrbitTarget
    /\ firstPersonPosition = InitialFirstPersonPosition
    /\ cameraOrbiting = (params.mode = "orbit")
    /\ disposed = FALSE
    /\ frameHandle = TRUE
    /\ moves = 0
    /\ glLost = FALSE
    /\ focusHeld = TRUE
    /\ \E e \in {Constructed(params.mode)} :
           /\ chunks = e.chunks
           /\ chunkQueue = e.chunkQueue
           /\ pendingChunkKeys = e.pendingChunkKeys
           /\ currentChunkX = e.currentChunkX
           /\ currentChunkZ = e.currentChunkZ
           /\ last = Report("constructor", e, FALSE, TRUE)

\* one frame: updateCamera, syncChunks(false), processChunkQueue(3), render,
\* requestAnimationFrame. step is the first-person displacement of this frame;
\* glLeft is how many createChunk calls succeed before the context is lost
\* (-1: it is not lost in this frame).  The callback runs for a requested frame;
\* a call on a disposed engine, whose request dispose cancelled, returns at once.
Frame(step, glLeft) ==
    /\ frameHandle \/ disposed
    /\ UNCHANGED <<probeVars, noiseVars, boardVars, runnerVars>>
    /\ IF disposed
         THEN /\ frameHandle' = FALSE
              /\ UNCHANGED <<chunks, chunkQueue, pendingChunkKeys, currentChunkX,
                             currentChunkZ, params, terrainField, orbitTarget,
                             firstPersonPosition, disposed, cameraOrbiting, moves,
                             glLost, focusHeld, last>>
         ELSE
           /\ params.mode = "orbit" => step = <<0, 0>>
           /\ step # <<0, 0>> => moves < MaxMoves
           /\ moves' = IF step # <<0, 0>> THEN moves + 1 ELSE moves
           /\ firstPersonPosition' = <<firstPersonPosition[1] + step[1],
                                       firstPersonPosition[2] + step[2]>>
           /\ cameraOrbiting' = (params.mode = "orbit")
           /\ glLeft # -1 => (~glLost /\ chunkQueue # <<>>)
           /\ LET focus == Focus(params.mode, orbitTarget, firstPersonPosition')
                  coalesced == /\ ChunkCoord(focus[1]) = currentChunkX
                               /\ ChunkCoord(focus[2]) = currentChunkZ
              IN  \E e \in {processChunkQueue(
                                syncChunks(Current(terrainField, glLeft), focus, FALSE),
                                FrameBudget)} :
                      /\ glLeft # -1 => e.threw
                      /\ glLost' = (glLost \/ glLeft # -1)
                      /\ Store(e)
                      /\ frameHandle' = ~e.threw
                      /\ focusHeld' = (focusHeld /\ coalesced)
                      /\ last' = Report("animate", e, coalesced, FALSE)
           /\ UNCHANGED <<params, terrainField, orbitTarget, disposed>>

\* animate with every GPU allocation succeeding
Animate == \E step \in Steps : Frame(step, -1)

\* the rest of updateParams once resetChunks (if any) has run and left e
Updated(e, nextParams, seedChanged, modeChanged, cameraPosition, glLeft) ==
    /\ glLeft # -1 => e.threw
    /\ glLost' = (glLost \/ glLeft # -1)
    /\ Store(e)
    \* a throw in resetChunks leaves updateParams before the mode switch
    /\ IF modeChanged /\ ~e.threw
         THEN /\ moves' = moves + 1
              /\ IF nextParams.mode = "firstPerson"
                   THEN /\ firstPersonPosition' = cameraPosition
                        /\ UNCHANGED orbitTarget
                   ELSE /\ orbitTarget' = cameraPosition
                        /\ UNCHANGED firstPersonPosition
         ELSE UNCHANGED <<moves, orbitTarget, firstPersonPosition>>
    /\ focusHeld' = (seedChanged \/ focusHeld)
    /\ last' = IF seedChanged THEN Report("updateParams", e, FALSE, TRUE)
               ELSE last
    /\ UNCHANGED <<disposed, cameraOrbiting, frameHandle>>

\* updateParams(nextParams); camOffset is where the orbit camera stood relative
\* to its target when updateCamera last placed it. `last` keeps the report of the
\* last handler that ran the streamer, so a call without a seed change leaves it.
Update(nextParams, camOffset, glLeft) ==
    IF disposed
      THEN /\ glLeft = -1
           /\ camOffset = <<0, 0>>
           /\ UNCHANGED vars
      ELSE
        LET seedChanged == params.seed # nextParams.seed
            modeChanged == params.mode # nextParams.mode
            cameraPosition ==
                IF cameraOrbiting
                  THEN <<orbitTarget[1] + camOffset[1], orbitTarget[2] + camOffset[2]>>
                  ELSE firstPersonPosition
        IN  /\ (cameraOrbiting /\ modeChanged) = (camOffset # <<0, 0>>)
            /\ modeChanged => moves < MaxMoves
            /\ UNCHANGED <<probeVars, noiseVars, boardVars, runnerVars>>
            /\ glLeft # -1 => (~glLost /\ seedChanged)
            /\ params' = nextParams
            /\ terrainField' = IF seedChanged THEN nextParams.seed ELSE terrainField
            /\ \E e \in {IF seedChanged
                            THEN resetChunks(Current(nextParams.seed, glLeft),
                                             Focus(nextParams.mode, orbitTarget,
                                                   firstPersonPosition))
                            ELSE Current(terrainField, glLeft)} :
                 Updated(e, nextParams, seedChanged, modeChanged, cameraPosition,
                         glLeft)

UpdateParams ==
    \E nextParams \in [seed : Seeds, mode : Modes] :
        \E camOffset \in CamOffsets \cup {<<0, 0>>} :
            Update(nextParams, camOffset, -1)

\* dispose() that leaves the requested frame in place
DisposeKeepFrame ==
    /\ IF disposed
         THEN UNCHANGED <<disposed, frameHandle, chunks, last>>
         ELSE /\ disposed' = TRUE
              /\ frameHandle' = frameHandle
              /\ chunks' = EmptyMap
              /\ last' = [op |-> "dispose", created |-> 0,
                          released |-> Cardinality(DOMAIN chunks),
                          disposedChunks |-> Values(chunks),
                          popped |-> <<>>, discarded |-> 0,
                          alreadyResident |-> 0, threw |-> FALSE,
                          failedKey |-> NoKey, coalesced |-> FALSE,
                          reset |-> FALSE]
    /\ UNCHANGED <<chunkQueue, pendingChunkKeys, currentChunkX, currentChunkZ,
                   params, terrainField, orbitTarget, firstPersonPosition,
                   cameraOrbiting, moves, glLost, focusHeld>>
    /\ UNCHANGED <<probeVars, noiseVars, boardVars, runnerVars>>

\* dispose()
Dispose ==
    /\ IF disposed
         THEN UNCHANGED <<disposed, frameHandle, chunks, last>>
         ELSE /\ disposed' = TRUE
              /\ frameHandle' = FALSE
              /\ chunks' = EmptyMap
              /\ last' = [op |-> "dispose", created |-> 0,
                          released |-> Cardinality(DOMAIN chunks),
                          disposedChunks |-> Values(chunks),
                          popped |-> <<>>, discarded |-> 0,
                          alreadyResident |-> 0, threw |-> FALSE,
                          failedKey |-> NoKey, coalesced |-> FALSE,
                          reset |-> FALSE]
    /\ UNCHANGED <<chunkQueue, pendingChunkKeys, currentChunkX, currentChunkZ,
                   params, terrainField, orbitTarget, firstPersonPosition,
                   cameraOrbiting, moves, glLost, focusHeld>>
    /\ UNCHANGED <<probeVars, noiseVars, boardVars, runnerVars>>

Next == Animate \/ UpdateParams \/ Dispose

Spec == Init /\ [][Next]_vars

\* The same engine with a WebGL context that can be lost: from the moment it is,
\* gl.createVertexArray and gl.createBuffer return null and createChunk throws.
\* The context is lost after glLeft successful createChunk calls of a handler.
AnimateFail ==
    \E step \in Steps : \E glLeft \in 0..MaxBuiltBeforeFailure :
        Frame(step, glLeft)

UpdateParamsFail ==
    \E nextParams \in [seed : Seeds, mode : Modes] :
        \E camOffset \in CamOffsets \cup {<<0, 0>>} :
            \E glLeft \in 0..MaxBuiltBeforeFailure :
                Update(nextParams, camOffset, glLeft)

NextFail == Next \/ AnimateFail \/ UpdateParamsFail

SpecFail == Init /\ [][NextFail]_vars

\* no engine has been constructed: the fields hold their initialisers
NoReport ==
    [op |-> "none", created |-> 0, released |-> 0, disposedChunks |-> {},
     popped |-> <<>>, discarded |-> 0, alreadyResident |-> 0, threw |-> FALSE,
     failedKey |-> NoKey, coalesced |-> FALSE, reset |-> FALSE]

EngineIdle ==
    /\ chunks = EmptyMap /\ chunkQueue = <<>> /\ pendingChunkKeys = {}
    /\ currentChunkX = NaN /\ currentChunkZ = NaN
    /\ params = [seed |-> InitialSeed, mode |-> "orbit"]
    /\ terrainField = InitialSeed
    /\ orbitTarget = InitialOrbitTarget
    /\ firstPersonPosition = InitialFirstPersonPosition
    /\ disposed = FALSE /\ cameraOrbiting = TRUE /\ frameHandle = FALSE
    /\ moves = 0 /\ glLost = FALSE /\ focusHeld = TRUE
    /\ last = NoReport

----------------------------------------------------------------------------
(* lodForDistance applied to pairs of ring distances *)

LodInit ==
    /\ EngineIdle /\ NoiseIdle /\ BoardIdle /\ RunnerIdle
    /\ call \in [fn : {"lodForDistance"},
                  args : (0..MaxDistance) \X (0..MaxDistance)]
    /\ result = NoResult

LodApply ==
    /\ call.fn = "lodForDistance" /\ result = NoResult
    /\ result' = <<lodForDistance(call.args[1]), lodForDistance(call.args[2])>>
    /\ UNCHANGED <<engineVars, call, noiseVars, boardVars, runnerVars>>

LodNext == LodApply

SpecLod == LodInit /\ [][LodNext]_vars

----------------------------------------------------------------------------
(* The geometry createChunk builds for a request.  Arrays are functions on    *)
(* 0..length-1.  A world coordinate w is held as w * lod, an integer, since   *)
(* the grid step is chunkSize / lod.                                          *)

\* a Uint16Array element after indices[i] = value
Uint16(value) == value % 65536

\* the index loop with the second triangle of a cell wound the other way
\* (i1, i3, i2)
ChunkIndicesSecondFlipped(lod) ==
    [k \in 0..(lod * lod * 6 - 1) |->
        LET z == (k \div 6) \div lod
            x == (k \div 6) % lod
            i0 == z * (lod + 1) + x
            i1 == i0 + 1
            i2 == i0 + (lod + 1)
            i3 == i2 + 1
        IN  Uint16(<<i0, i2, i1, i1, i3, i2>>[(k % 6) + 1])]

\* the Uint16Array indices of createChunk
ChunkIndices(lod) ==
    [k \in 0..(lod * lod * 6 - 1) |->
        LET z == (k \div 6) \div lod
            x == (k \div 6) % lod
            i0 == z * (lod + 1) + x
            i1 == i0 + 1
            i2 == i0 + (lod + 1)
            i3 == i2 + 1
        IN  Uint16(<<i0, i2, i1, i1, i2, i3>>[(k % 6) + 1])]

\* baseX, baseZ of createChunk
ChunkBase(coordinate) == coordinate * chunkSize - chunkSize \div 2

\* <<worldX * lod, worldZ * lod>> of the vertex written at cursor v * stride
ChunkVertices(request) ==
    [v \in 0..((request.lod + 1) * (request.lod + 1) - 1) |->
        <<ChunkBase(request.chunkX) * request.lod
              + (v % (request.lod + 1)) * chunkSize,
          ChunkBase(request.chunkZ) * request.lod
              + (v \div (request.lod + 1)) * chunkSize>>]

\* the vertex and index data createChunk uploads for the request
ChunkGeometry(request) ==
    [lod |-> request.lod,
     vertexCount |-> (request.lod + 1) * (request.lod + 1),
     vertices |-> ChunkVertices(request),
     indices |-> ChunkIndices(request.lod),
     indexCount |-> request.lod * request.lod * 6]

\* focus coordinates: the initial orbit target and first-person position, and
\* points at and next to the borders of the chunk grid and of the tiles
FocusCoordinates == {-97, -49, -46, 0, 28, 47, 48, 95, 126}

\* requests of one sync: the focus tile and a tile of each outer ring
RingOffsets == {<<0, 0>>, <<-1, 1>>, <<2, -1>>, <<0, 3>>}

\* the index in DesiredRequests of the request at chunk offset <<dx, dz>>
DesiredIndex(offset) ==
    (offset[2] + chunkRadius) * DesiredWidth + offset[1] + chunkRadius + 1

MeshInit ==
    /\ call \in [fn : {"createChunk"},
                 args : (FocusCoordinates \X {0, 47, 95}) \X RingOffsets]
    /\ result = NoResult
    /\ EngineIdle /\ NoiseIdle /\ BoardIdle /\ RunnerIdle

\* createChunk for a request of the sync with the focus at call.args[1]
MeshBuild ==
    /\ call.fn = "createChunk" /\ result = NoResult
    /\ \E request \in
           {DesiredRequests(ChunkCoord(call.args[1][1]), ChunkCoord(call.args[1][2]))
               [DesiredIndex(call.args[2])]} :
          result' = <<request, ChunkGeometry(request)>>
    /\ UNCHANGED <<engineVars, call, noiseVars, boardVars, runnerVars>>

MeshNext == MeshBuild

SpecMesh == MeshInit /\ [][MeshNext]_vars

----------------------------------------------------------------------------
(* Noise: hashSeed, mulberry32 and SimplexNoise2D of terrainEngine.ts and     *)
(* TerrainField of terrainField.ts.  A 32-bit word is a pair <<hi, lo>> of    *)
(* 16-bit halves; a number (a double in the code) is an integer count of      *)
(* millionths, and products and quotients are cut to a millionth.             *)

W16 == 65536

One == 1000000

\* a ^ b on words of 1, 2, 4, 8 and 16 bits
Xor1(a, b) == (a + b) % 2

Xor2(a, b) == 2 * Xor1(a \div 2, b \div 2) + Xor1(a % 2, b % 2)

Xor4(a, b) == 4 * Xor2(a \div 4, b \div 4) + Xor2(a % 4, b % 4)

Xor8(a, b) == 16 * Xor4(a \div 16, b \div 16) + Xor4(a % 16, b % 16)

Xor16(a, b) == 256 * Xor8(a \div 256, b \div 256) + Xor8(a % 256, b % 256)

\* a | b on words of 1, 2, 4, 8 and 16 bits
Or1(a, b) == IF a + b > 0 THEN 1 ELSE 0

Or2(a, b) == 2 * Or1(a \div 2, b \div 2) + Or1(a % 2, b % 2)

Or4(a, b) == 4 * Or2(a \div 4, b \div 4) + Or2(a % 4, b % 4)

Or8(a, b) == 16 * Or4(a \div 16, b \div 16) + Or4(a % 16, b % 16)

Or16(a, b) == 256 * Or8(a \div 256, b \div 256) + Or8(a % 256, b % 256)

Xor32(a, b) == <<Xor16(a[1], b[1]), Xor16(a[2], b[2])>>

\* (a + b) | 0
Add32(a, b) ==
    LET lo == a[2] + b[2]
    IN  <<(a[1] + b[1] + lo \div W16) % W16, lo % W16>>

\* x * y for 16-bit x, y: <<high half, low half>> of the 32-bit product
Mul16(x, y) ==
    LET p1 == x * (y \div 256)
        p0 == x * (y % 256)
        low == (p1 % 256) * 256 + p0
    IN  <<(p1 \div 256 + low \div W16) % W16, low % W16>>

\* Math.imul(a, b)
Imul(a, b) ==
    LET ll == Mul16(a[2], b[2])
        hl == Mul16(a[1], b[2])[2]
        lh == Mul16(a[2], b[1])[2]
    IN  <<(ll[1] + hl + lh) % W16, ll[2]>>

\* a >>> k for 0 < k < 16
Shr(a, k) ==
    LET p == 2 ^ k
    IN  <<a[1] \div p, (a[2] \div p) + (a[1] % p) * (W16 \div p)>>

\* seed.charCodeAt(i) for the seeds and the suffixes TerrainField appends
CharCodes(text) ==
    CASE text = "terra-core-001" ->
           <<116, 101, 114, 114, 97, 45, 99, 111, 114, 101, 45, 48, 48, 49>>
      [] text = "demo" -> <<100, 101, 109, 111>>
      [] text = ":continental" ->
           <<58, 99, 111, 110, 116, 105, 110, 101, 110, 116, 97, 108>>
      [] text = ":mountain" -> <<58, 109, 111, 117, 110, 116, 97, 105, 110>>
      [] text = ":detail" -> <<58, 100, 101, 116, 97, 105, 108>>
      [] text = ":humidity" -> <<58, 104, 117, 109, 105, 100, 105, 116, 121>>
      [] text = ":temperature" ->
           <<58, 116, 101, 109, 112, 101, 114, 97, 116, 117, 114, 101>>

\* the loop of hashSeed over the char codes lo..hi, the first half of them
\* before the second
RECURSIVE HashLoop(_, _, _, _)
HashLoop(hash, codes, lo, hi) ==
    IF lo > hi THEN hash
    ELSE IF lo = hi THEN Imul(Xor32(hash, <<0, codes[lo]>>), <<256, 403>>)
    ELSE CHOOSE done \in
             {HashLoop(half, codes, (lo + hi) \div 2 + 1, hi) :
                 half \in {HashLoop(hash, codes, lo, (lo + hi) \div 2)}} : TRUE

\* hashSeed(seed) for the string with the given char codes
hashSeed(codes) == HashLoop(<<33052, 40389>>, codes, 1, Len(codes))

\* one call of the closure mulberry32 returns: <<state after the call, n>>, the
\* number returned being n / 4294967296
mulberry32(state) ==
    LET s == Add32(state, <<27947, 31221>>)
        t1 == Imul(Xor32(s, Shr(s, 15)), <<s[1], Or16(s[2], 1)>>)
        t2 == Xor32(t1, Add32(t1, Imul(Xor32(t1, Shr(t1, 7)),
                                       <<t1[1], Or16(t1[2], 61)>>)))
    IN  <<s, Xor32(t2, Shr(t2, 14))>>

\* Math.floor(random() * n) for random() = u / 4294967296
Draw(u, n) == (u[1] * n + (u[2] * n) \div W16) \div W16

\* a pass that stores p[j] in p[i] and leaves p[j] (p[j] = swap forgotten)
SwapOverwriting(ps, i) ==
    LET r == mulberry32(ps[2])
        j == Draw(r[2], i + 1)
    IN  <<[ps[1] EXCEPT ![i + 1] = ps[1][j + 1]], r[1]>>

\* one pass of the shuffle loop of the constructor, at index i, on
\* <<p, state of random>> (p is 1-based)
Swap(ps, i) ==
    LET r == mulberry32(ps[2])
        j == Draw(r[2], i + 1)
    IN  <<[ps[1] EXCEPT ![i + 1] = ps[1][j + 1], ![j + 1] = ps[1][i + 1]], r[1]>>

\* the passes of the shuffle loop from index from down to index to, the upper
\* half of them before the lower
RECURSIVE Shuffle(_, _, _)
Shuffle(ps, from, to) ==
    IF from = to THEN Swap(ps, from)
    ELSE CHOOSE done \in
             {Shuffle(upper, (from + to + 1) \div 2 - 1, to) :
                 upper \in {Shuffle(ps, from, (from + to + 1) \div 2)}} : TRUE

\* the entries p[i] = i for i from lo to hi
RECURSIVE Iota(_, _)
Iota(lo, hi) ==
    IF lo = hi THEN <<lo>>
    ELSE Iota(lo, (lo + hi) \div 2) \o Iota((lo + hi) \div 2 + 1, hi)

\* new SimplexNoise2D(seed): the tables perm and permMod12 (1-based)
SimplexNoise2D(codes) ==
    CHOOSE noise \in
        {[perm |-> ps[1] \o ps[1],
          permMod12 |-> [i \in 1..512 |-> ps[1][((i - 1) % 256) + 1] % 12]] :
            ps \in {Shuffle(<<Iota(0, 255), hashSeed(codes)>>, 255, 1)}} : TRUE

GRADIENTS ==
    <<<<1, 1>>, <<-1, 1>>, <<1, -1>>, <<-1, -1>>, <<1, 0>>, <<-1, 0>>,
      <<1, 0>>, <<-1, 0>>, <<0, 1>>, <<0, -1>>, <<0, 1>>, <<0, -1>>>>

\* a * b for numbers a, b >= 0
MulAbs(a, b) ==
    LET ah == a \div 1000
        al == a % 1000
        bh == b \div 1000
        bl == b % 1000
    IN  ah * bh + (ah * bl + al * bh + (al * bl) \div 1000) \div 1000

\* a * b
Mul(a, b) ==
    IF (a < 0) = (b < 0) THEN MulAbs(Abs(a), Abs(b)) ELSE -MulAbs(Abs(a), Abs(b))

\* the first n decimals of r / b for 0 <= r < b
RECURSIVE Decimals(_, _, _)
Decimals(r, b, n) ==
    IF n = 0 THEN 0
    ELSE ((r * 10) \div b) * 10 ^ (n - 1) + Decimals((r * 10) % b, b, n - 1)

\* a quotient that leaves the dividend as it is
DivUnscaled(a, b) == a

\* a / b for b > 0
Div(a, b) ==
    LET q == (Abs(a) \div b) * One + Decimals(Abs(a) % b, b, 6)
    IN  IF a < 0 THEN -q ELSE q

\* (xin + yin) * F2, F2 = 0.366025403784...
Skew(sum) == Mul(sum, 366025) + Mul(sum \div 1000, 404) \div 1000

\* (i + j) * G2 for the integer i + j, G2 = 0.211324865405...
Unskew(n) == n * 211324 + (n * 865) \div 1000

\* cornerContribution(gradientIndex, x, y)
cornerContribution(gradientIndex, x, y) ==
    LET t == 500000 - Mul(x, x) - Mul(y, y)
        t2 == Mul(t, t)
        gradient == GRADIENTS[gradientIndex + 1]
    IN  IF t < 0 THEN 0
        ELSE Mul(Mul(t2, t2), gradient[1] * x + gradient[2] * y)

\* noise2D with the corners of the cell already found: i, j the cell and
\* <<x0, y0>> the offset in it
Corners(noise, i, j, x0, y0) ==
    LET i1 == IF x0 > y0 THEN 1 ELSE 0
        j1 == IF x0 > y0 THEN 0 ELSE 1
        x1 == x0 - i1 * One + 211325
        y1 == y0 - j1 * One + 211325
        x2 == x0 - One + 422650
        y2 == y0 - One + 422650
        ii == i % 256
        jj == j % 256
        gi0 == noise.permMod12[ii + noise.perm[jj + 1] + 1]
        gi1 == noise.permMod12[ii + i1 + noise.perm[jj + j1 + 1] + 1]
        gi2 == noise.permMod12[ii + 1 + noise.perm[jj + 1 + 1] + 1]
    IN  70 * (cornerContribution(gi0, x0, y0) + cornerContribution(gi1, x1, y1)
                + cornerContribution(gi2, x2, y2))

\* the cell of noise2D and the offset in it: <<i, j, x0, y0>>
Cell(xin, yin) ==
    LET skew == Skew(xin + yin)
        i == (xin + skew) \div One
        j == (yin + skew) \div One
        unskew == Unskew(i + j)
    IN  <<i, j, xin - (i * One - unskew), yin - (j * One - unskew)>>

\* noise.noise2D(xin, yin)
noise2D(noise, xin, yin) ==
    CHOOSE n \in {Corners(noise, cell[1], cell[2], cell[3], cell[4]) :
                     cell \in {Cell(xin, yin)}} : TRUE

\* the octave loop of fractal2D from the given octave on, on
\* at = <<amplitude, frequency, value, maxAmplitude>>
RECURSIVE Octave(_, _, _, _, _, _, _, _)
Octave(noise, x, y, octaves, lacunarity, gain, octave, at) ==
    IF octave >= octaves
      THEN IF at[4] > 0 THEN Div(at[3], at[4]) ELSE 0
    ELSE CHOOSE value \in
             {Octave(noise, x, y, octaves, lacunarity, gain, octave + 1, next) :
                 next \in
                   {<<Mul(at[1], gain), Mul(at[2], lacunarity),
                      at[3] + Mul(noise2D(noise, Mul(x, at[2]), Mul(y, at[2])), at[1]),
                      at[4] + at[1]>>}} : TRUE

\* noise.fractal2D(x, y, octaves, lacunarity, gain)
fractal2D(noise, x, y, octaves, lacunarity, gain) ==
    Octave(noise, x, y, octaves, lacunarity, gain, 0, <<One, One, 0, 0>>)

\* new TerrainField(seed)
TerrainField(seed) ==
    [seed |-> seed,
     continentalNoise |-> SimplexNoise2D(CharCodes(seed) \o CharCodes(":continental")),
     mountainNoise |-> SimplexNoise2D(CharCodes(seed) \o CharCodes(":mountain")),
     detailNoise |-> SimplexNoise2D(CharCodes(seed) \o CharCodes(":detail")),
     humidityNoise |-> SimplexNoise2D(CharCodes(seed) \o CharCodes(":humidity")),
     temperatureNoise |->
         SimplexNoise2D(CharCodes(seed) \o CharCodes(":temperature"))]

\* a sample that takes its point from the number of samples taken before
sampleHeightDrifting(field, x, z) ==
    54 * fractal2D(field.continentalNoise, (x + Len(samples)) * 1800, z * 1800, 5,
                   2000000, 530000) - 24 * One

\* field.sampleHeight(x, z) for integers x, z
sampleHeight(field, x, z) ==
    LET continental == fractal2D(field.continentalNoise, x * 1800, z * 1800, 5,
                                 2000000, 530000)
        mountain == fractal2D(field.mountainNoise, x * 6000, z * 6000, 4,
                              2100000, 500000)
        ridged == One - Abs(fractal2D(field.mountainNoise, x * 10500, z * 10500, 3,
                                      2300000, 480000))
        detail == fractal2D(field.detailNoise, x * 27000, z * 27000, 3,
                            2200000, 450000)
    IN  continental * 54 + mountain * 22 + ridged * 41 + detail * 8 - 24 * One

\* most samples taken from the fields
MaxSamples == 2

\* the points sampled
Points == {<<-46, 28>>, <<0, 0>>, <<96, -96>>, <<-220, -159>>}

\* three TerrainField instances, two of them of the same seed
FieldInit ==
    /\ fields = <<TerrainField("terra-core-001"), TerrainField("terra-core-001"),
                  TerrainField("demo")>>
    /\ samples = <<>>
    /\ EngineIdle /\ ProbeIdle /\ BoardIdle /\ RunnerIdle

\* fields[f].sampleHeight(x, z)
SampleHeight(f, x, z) ==
    /\ samples' = Append(samples, [field |-> f, x |-> x, z |-> z,
                                   height |-> sampleHeight(fields[f], x, z)])
    /\ Len(samples) < MaxSamples
    /\ UNCHANGED <<engineVars, probeVars, fields, boardVars, runnerVars>>

FieldNext ==
    \E f \in DOMAIN fields : \E point \in Points : SampleHeight(f, point[1], point[2])

SpecField == FieldInit /\ [][FieldNext]_vars

\* most octaves fractal2D is asked for
MaxOctaves == 4

\* the coordinates, lacunarities and gains fractal2D is applied to
Coordinates == {-1500000, -707107, -250000, 0, 333333, 408248, 1000000}

Lacunarities == {2000000, 2300000}

Gains == {250000, 500000, 1000000, 2000000}

\* fractal2D applied to one noise instance
FractalInit ==
    /\ fields = <<SimplexNoise2D(CharCodes("demo") \o CharCodes(":continental"))>>
    /\ samples = <<>>
    /\ call \in [fn : {"fractal2D"},
                 args : Coordinates \X Coordinates \X (0..MaxOctaves)
                            \X Lacunarities \X Gains]
    /\ result = NoResult
    /\ EngineIdle /\ BoardIdle /\ RunnerIdle

FractalApply ==
    /\ result' = <<fractal2D(fields[1], call.args[1], call.args[2], call.args[3],
                             call.args[4], call.args[5])>>
    /\ call.fn = "fractal2D" /\ result = NoResult
    /\ UNCHANGED <<engineVars, call, noiseVars, boardVars, runnerVars>>

FractalNext == FractalApply

SpecFractal == FractalInit /\ [][FractalNext]_vars

----------------------------------------------------------------------------
(* Sprint board: src/scripts/sprint-board.mjs.  A task is a record            *)
(*   [id, priority, state, createdAt, startedAt, completedAt, lastFailedAt,  *)
(*    failCount, dependsOn], the time "" being 0;                            *)
(* an id is <<prefix, digits>>, the string `${prefix}-${digits}` with digits  *)
(* a sequence of decimal digits; createdAt is the number of the day           *)
(* (YYYY-MM-DD strings compare as their days do).                             *)

VALID_STATES == <<"Backlog", "In Progress", "Review", "Testing", "Failed", "Done">>

NEXT_ORDER == <<"Failed", "Testing", "Review", "In Progress", "Backlog">>

DEFAULT_MAX_PARALLEL == 2

\* PRIORITY_WEIGHT[priority] ?? 99
PRIORITY_WEIGHT(priority) ==
    CASE priority = "P0" -> 0
      [] priority = "P1" -> 1
      [] priority = "P2" -> 2
      [] priority = "P3" -> 3
      [] OTHER -> 99

Priorities == {"P0", "P1"}

\* the days on which add commands run
Days == {1, 2}

\* the order of the prefixes as strings
PrefixRank(prefix) == IF prefix = "TASK" THEN 1 ELSE 2

\* String(n) for n >= 0: the decimal digits
RECURSIVE Digits(_)
Digits(n) == IF n < 10 THEN <<n>> ELSE Append(Digits(n \div 10), n % 10)

\* digits.padStart(len, "0")
RECURSIVE PadStart(_, _)
PadStart(digits, len) ==
    IF Len(digits) >= len THEN digits ELSE PadStart(<<0>> \o digits, len)

\* Number.parseInt(digits, 10)
RECURSIVE ParseInt(_)
ParseInt(digits) ==
    IF digits = <<>> THEN 0
    ELSE 10 * ParseInt(SubSeq(digits, 1, Len(digits) - 1)) + digits[Len(digits)]

\* a.localeCompare(b) for digit strings: negative, zero or positive
RECURSIVE CompareDigits(_, _, _)
CompareDigits(a, b, i) ==
    IF i > Len(a) /\ i > Len(b) THEN 0
    ELSE IF i > Len(a) THEN -1
    ELSE IF i > Len(b) THEN 1
    ELSE IF a[i] # b[i] THEN a[i] - b[i]
    ELSE CompareDigits(a, b, i + 1)

\* String(a.id).localeCompare(String(b.id))
CompareIds(a, b) ==
    IF a[1] # b[1] THEN PrefixRank(a[1]) - PrefixRank(b[1])
    ELSE CompareDigits(a[2], b[2], 1)

\* the comparator of sortTasks without the priority comparison
CompareTasksNoPriority(a, b) ==
    IF a.createdAt # b.createdAt THEN a.createdAt - b.createdAt
    ELSE CompareIds(a.id, b.id)

\* the comparator of sortTasks
CompareTasks(a, b) ==
    IF PRIORITY_WEIGHT(a.priority) # PRIORITY_WEIGHT(b.priority)
      THEN PRIORITY_WEIGHT(a.priority) - PRIORITY_WEIGHT(b.priority)
    ELSE IF a.createdAt # b.createdAt THEN a.createdAt - b.createdAt
    ELSE CompareIds(a.id, b.id)

\* Array.prototype.sort is stable: t goes behind every element not after it
RECURSIVE InsertTask(_, _, _)
InsertTask(sorted, t, i) ==
    IF i > Len(sorted) THEN Append(sorted, t)
    ELSE IF CompareTasks(sorted[i], t) > 0
      THEN SubSeq(sorted, 1, i - 1) \o <<t>> \o SubSeq(sorted, i, Len(sorted))
    ELSE InsertTask(sorted, t, i + 1)

RECURSIVE SortPrefix(_, _)
SortPrefix(tasks, n) ==
    IF n = 0 THEN <<>> ELSE InsertTask(SortPrefix(tasks, n - 1), tasks[n], 1)

sortTasks(tasks) == SortPrefix(tasks, Len(tasks))

\* tasks.filter((task) => task.state === state)
TasksInState(tasks, state) ==
    LET Is(task) == task.state = state IN SelectSeq(tasks, Is)

DoneIds(tasks) == {tasks[i].id : i \in {j \in DOMAIN tasks : tasks[j].state = "Done"}}

\* isDependencySatisfied that only looks at the first dependency
isFirstDependencySatisfied(task, doneIds) ==
    task.dependsOn # <<>> => task.dependsOn[1] \in doneIds

isDependencySatisfied(task, doneIds) ==
    \A i \in DOMAIN task.dependsOn : task.dependsOn[i] \in doneIds

ActionFor(state) ==
    CASE state = "Failed" -> "fix-and-retest"
      [] state = "Testing" -> "run-acceptance"
      [] state = "Review" -> "run-review"
      [] state = "In Progress" -> "continue-implementation"
      [] OTHER -> "start-task"

\* findNextTask returned null
NoTask == [state |-> "none", action |-> "none", task |-> <<>>]

\* the loop of findNextTask over order, from its k-th state on
RECURSIVE NextFrom(_, _, _)
NextFrom(tasks, order, k) ==
    IF k > Len(order) THEN NoTask
    ELSE
      LET state == order[k]
          sorted == sortTasks(TasksInState(tasks, state))
          Free(task) == isDependencySatisfied(task, DoneIds(tasks))
          candidates == IF state = "Backlog" THEN SelectSeq(sorted, Free) ELSE sorted
      IN  IF Len(candidates) > 0
            THEN [state |-> state, action |-> ActionFor(state), task |-> candidates[1]]
            ELSE NextFrom(tasks, order, k + 1)

\* findNextTask walking the states in the order of the board's columns
findNextTaskBoardOrder(tasks) ==
    NextFrom(tasks, <<"In Progress", "Failed", "Review", "Testing", "Backlog">>, 1)

findNextTask(tasks) == NextFrom(tasks, NEXT_ORDER, 1)

\* adjById: the last task with an id decides its entry
RECURSIVE AdjById(_, _)
AdjById(tasks, n) ==
    IF n = 0 THEN EmptyMap
    ELSE (tasks[n].id :> tasks[n].dependsOn) @@ AdjById(tasks, n - 1)

\* the path detectCycles reports for the back edge nodeId -> depId
RECURSIVE CyclePath(_, _, _, _)
CyclePath(parent, cur, depId, path) ==
    IF cur = depId THEN <<depId>> \o path
    ELSE IF cur \notin DOMAIN parent THEN <<depId>> \o <<cur>> \o path
    ELSE CyclePath(parent, parent[cur], depId, <<cur>> \o path)

\* dfs(nodeId) of detectCycles on the search state d = [color, parent, cycles];
\* DfsDeps is its loop over the dependencies of nodeId, from the i-th on
RECURSIVE dfs(_, _, _)
RECURSIVE DfsDeps(_, _, _, _)
DfsDeps(adj, d, nodeId, i) ==
    IF i > Len(adj[nodeId]) THEN d
    ELSE
      LET depId == adj[nodeId][i]
      IN  IF depId \notin DOMAIN adj
            THEN DfsDeps(adj, d, nodeId, i + 1)
          ELSE IF depId \in DOMAIN d.color /\ d.color[depId] = 1
            THEN DfsDeps(adj,
                         [d EXCEPT !.cycles =
                             Append(@, CyclePath(d.parent, nodeId, depId, <<depId>>))],
                         nodeId, i + 1)
          ELSE IF depId \notin DOMAIN d.color
            THEN DfsDeps(adj,
                         dfs(adj, [d EXCEPT !.parent = (depId :> nodeId) @@ @], depId),
                         nodeId, i + 1)
          ELSE DfsDeps(adj, d, nodeId, i + 1)

dfs(adj, d, nodeId) ==
    LET entered == [d EXCEPT !.color = (nodeId :> 1) @@ @]
        left == DfsDeps(adj, entered, nodeId, 1)
    IN  [left EXCEPT !.color = (nodeId :> 2) @@ @]

RECURSIVE DfsAll(_, _, _, _)
DfsAll(adj, tasks, d, n) ==
    IF n > Len(tasks) THEN d
    ELSE IF tasks[n].id \notin DOMAIN d.color
      THEN DfsAll(adj, tasks, dfs(adj, d, tasks[n].id), n + 1)
    ELSE DfsAll(adj, tasks, d, n + 1)

\* detectCycles that only recognises a task depending on itself
detectSelfCycles(tasks) ==
    LET Self(task) == \E k \in DOMAIN task.dependsOn : task.dependsOn[k] = task.id
        selfish == SelectSeq(tasks, Self)
    IN  [i \in DOMAIN selfish |-> <<selfish[i].id, selfish[i].id>>]

\* detectCycles(tasks): the cycle paths found
detectCycles(tasks) ==
    DfsAll(AdjById(tasks, Len(tasks)), tasks,
           [color |-> EmptyMap, parent |-> EmptyMap, cycles |-> <<>>], 1).cycles

\* buildParallelPlan returned null
NoPlan == [primaryTaskId |-> <<>>, primaryAction |-> "none",
           parallelTracks |-> <<>>, cycles |-> <<>>]

\* a track loop that stops only once the tracks exceed maxParallel
RECURSIVE TracksPastLimit(_, _, _, _, _, _)
TracksPastLimit(backlog, primaryId, doneIds, maxParallel, tracks, i) ==
    IF i > Len(backlog) \/ Len(tracks) > maxParallel THEN tracks
    ELSE IF \E k \in DOMAIN backlog[i].dependsOn : backlog[i].dependsOn[k] = primaryId
      THEN TracksPastLimit(backlog, primaryId, doneIds, maxParallel, tracks, i + 1)
    ELSE IF ~isDependencySatisfied(backlog[i], doneIds)
      THEN TracksPastLimit(backlog, primaryId, doneIds, maxParallel, tracks, i + 1)
    ELSE TracksPastLimit(backlog, primaryId, doneIds, maxParallel,
                         Append(tracks, backlog[i].id), i + 1)

\* the track loop of buildParallelPlan over the sorted backlog, from the i-th on
RECURSIVE Tracks(_, _, _, _, _, _)
Tracks(backlog, primaryId, doneIds, maxParallel, tracks, i) ==
    IF i > Len(backlog) \/ Len(tracks) >= maxParallel THEN tracks
    ELSE IF \E k \in DOMAIN backlog[i].dependsOn : backlog[i].dependsOn[k] = primaryId
      THEN Tracks(backlog, primaryId, doneIds, maxParallel, tracks, i + 1)
    ELSE IF ~isDependencySatisfied(backlog[i], doneIds)
      THEN Tracks(backlog, primaryId, doneIds, maxParallel, tracks, i + 1)
    ELSE Tracks(backlog, primaryId, doneIds, maxParallel,
                Append(tracks, backlog[i].id), i + 1)

\* buildParallelPlan(tasks, maxParallel); a plan with cycles # <<>> stands for
\* the Error it throws
buildParallelPlan(tasks, maxParallel) ==
    LET cycles == detectCycles(tasks)
        primary == findNextTask(tasks)
        Other(task) == task.state = "Backlog" /\ task.id # primary.task.id
    IN  IF Len(cycles) > 0 THEN [NoPlan EXCEPT !.cycles = cycles]
        ELSE IF primary = NoTask THEN NoPlan
        ELSE IF primary.action \notin {"start-task", "continue-implementation"}
                  \/ maxParallel <= 0
          THEN [primaryTaskId |-> primary.task.id, primaryAction |-> primary.action,
                parallelTracks |-> <<>>, cycles |-> <<>>]
        ELSE [primaryTaskId |-> primary.task.id, primaryAction |-> primary.action,
              parallelTracks |->
                  Tracks(sortTasks(SelectSeq(tasks, Other)), primary.task.id,
                         DoneIds(tasks), maxParallel, <<>>, 1),
              cycles |-> <<>>]

\* state.projectPrefix || "TASK"
PrefixOf(state) == IF state.projectPrefix = "" THEN "TASK" ELSE state.projectPrefix

\* the loop of nextTaskId: the largest numeric suffix among the first n ids
\* that match ^prefix-(\d+)$
RECURSIVE MaxSuffix(_, _, _)
MaxSuffix(tasks, prefix, n) ==
    IF n = 0 THEN 0
    ELSE LET id == tasks[n].id
             rest == MaxSuffix(tasks, prefix, n - 1)
         IN  IF id[1] = prefix /\ Len(id[2]) >= 1 /\ ParseInt(id[2]) > rest
               THEN ParseInt(id[2]) ELSE rest

\* nextTaskId counting the tasks instead of scanning their ids
nextTaskIdByCount(state) ==
    <<PrefixOf(state), PadStart(Digits(Len(state.tasks) + 1), 3)>>

nextTaskId(state) ==
    <<PrefixOf(state),
      PadStart(Digits(MaxSuffix(state.tasks, PrefixOf(state), Len(state.tasks)) + 1), 3)>>

\* addTask(state, options) with options = [priority, dependsOn] run on day today:
\* the state with the task pushed (the new task is its last)
addTask(state, options, today) ==
    [state EXCEPT !.tasks =
        Append(@, [id |-> nextTaskId(state), priority |-> options.priority,
                   state |-> "Backlog", createdAt |-> today, startedAt |-> 0,
                   completedAt |-> 0, lastFailedAt |-> 0, failCount |-> 0,
                   dependsOn |-> options.dependsOn]),
                  !.updatedAt = today]

\* state.tasks.find((item) => item.id === id): its index, 0 when there is none
RECURSIVE FindTask(_, _, _)
FindTask(tasks, id, i) ==
    IF i > Len(tasks) THEN 0
    ELSE IF tasks[i].id = id THEN i
    ELSE FindTask(tasks, id, i + 1)

\* an update that stamps startedAt whenever the task enters In Progress
updateTaskRestamping(state, options, flags, now) ==
    LET i == FindTask(state.tasks, options.id, 1)
        given == options.state # ""
        failed == given /\ options.state = "Failed"
    IN  [state EXCEPT
           !.tasks[i].state = IF given THEN options.state ELSE @,
           !.tasks[i].startedAt =
               IF given /\ options.state = "In Progress" THEN now ELSE @,
           !.tasks[i].failCount =
               IF "reset-fail-count" \in flags THEN 0
               ELSE IF failed THEN @ + 1 ELSE @,
           !.tasks[i].lastFailedAt =
               IF "reset-fail-count" \in flags THEN 0
               ELSE IF failed THEN now ELSE @,
           !.tasks[i].completedAt =
               IF given /\ options.state = "Done" THEN now ELSE @,
           !.updatedAt = now]

\* updateTask(state, options, flags) run at time now, with options = [id, state]
\* (state "" when --state is not given) and flags a subset of
\* {"reset-fail-count"}
updateTask(state, options, flags, now) ==
    LET i == FindTask(state.tasks, options.id, 1)
        given == options.state # ""
        failed == given /\ options.state = "Failed"
    IN  [state EXCEPT
           !.tasks[i].state = IF given THEN options.state ELSE @,
           !.tasks[i].startedAt =
               IF given /\ options.state = "In Progress" /\ @ = 0 THEN now ELSE @,
           !.tasks[i].failCount =
               IF "reset-fail-count" \in flags THEN 0
               ELSE IF failed THEN @ + 1 ELSE @,
           !.tasks[i].lastFailedAt =
               IF "reset-fail-count" \in flags THEN 0
               ELSE IF failed THEN now ELSE @,
           !.tasks[i].completedAt =
               IF given /\ options.state = "Done" THEN now ELSE @,
           !.updatedAt = now]

TaskIds(tasks) == {tasks[i].id : i \in DOMAIN tasks}

\* the id add gives to the n-th task of a board that had only added tasks
TaskId(prefix, n) == <<prefix, PadStart(Digits(n), 3)>>

\* an id no task has
UnknownId == <<"UT", <<9, 9, 9>>>>

\* --depends-on values: none, the first task, the second, both, an unknown id
DependsOnChoices(prefix) ==
    {<<>>, <<TaskId(prefix, 1)>>, <<TaskId(prefix, 2)>>,
     <<TaskId(prefix, 1), TaskId(prefix, 2)>>, <<UnknownId>>}

(* The commands of main().  Each reads the state file, and add and update    *)
(* write it back. *)

\* node sprint-board.mjs add --title .. --priority .. [--depends-on ..]
Add(options, today) ==
    /\ options.priority \in {"P0", "P1", "P2", "P3"}
    /\ \E next \in {addTask(stateFile, options, today)} :
          /\ stateFile' = next
          /\ cli' = [command |-> "add", argv |-> options, status |-> 0,
                     out |-> <<next.tasks[Len(next.tasks)].id>>]
    /\ UNCHANGED <<engineVars, probeVars, noiseVars, runnerVars>>

\* node sprint-board.mjs update --id .. [--state ..] [--reset-fail-count]
UpdateState(options, flags, now) ==
    /\ FindTask(stateFile.tasks, options.id, 1) # 0
    /\ options.state = ""
          \/ \E i \in 1..Len(VALID_STATES) : VALID_STATES[i] = options.state
    /\ options.state = "Failed" =>
          stateFile.tasks[FindTask(stateFile.tasks, options.id, 1)].failCount
              < MaxFailCount
    /\ \E next \in {updateTask(stateFile, options, flags, now)} :
          /\ stateFile' = next
          /\ cli' = [command |-> "update", status |-> 0,
                     argv |-> [id |-> options.id, state |-> options.state,
                               flags |-> flags],
                     out |-> <<options.id,
                               next.tasks[FindTask(next.tasks, options.id, 1)].state>>]
    /\ UNCHANGED <<engineVars, probeVars, noiseVars, runnerVars>>

\* node sprint-board.mjs next
NextCmd ==
    /\ \E next \in {findNextTask(stateFile.tasks)} :
          cli' = [command |-> "next", argv |-> <<>>, status |-> 0,
                  out |-> IF next = NoTask THEN <<"No actionable task found.">>
                          ELSE <<next.task.id, next.action>>]
    /\ UNCHANGED <<engineVars, probeVars, noiseVars, stateFile, runnerVars>>

\* node sprint-board.mjs plan --max-parallel n
Plan(maxParallel) ==
    /\ \E plan \in {buildParallelPlan(stateFile.tasks, maxParallel)} :
          cli' = IF Len(plan.cycles) > 0
                   THEN [command |-> "plan", argv |-> <<maxParallel>>, status |-> 1,
                         out |-> <<"Dependency cycle(s) detected", plan.cycles>>]
                 ELSE IF plan = NoPlan
                   THEN [command |-> "plan", argv |-> <<maxParallel>>, status |-> 0,
                         out |-> <<"No actionable task found.">>]
                 ELSE [command |-> "plan", argv |-> <<maxParallel>>, status |-> 0,
                       out |-> <<plan.primaryTaskId, plan.primaryAction,
                                 plan.parallelTracks>>]
    /\ UNCHANGED <<engineVars, probeVars, noiseVars, stateFile, runnerVars>>

\* the state flow the rendered board prints
StateFlow ==
    {<<"Backlog", "In Progress">>, <<"In Progress", "Review">>,
     <<"Review", "Testing">>, <<"Testing", "Done">>, <<"Testing", "Failed">>,
     <<"Failed", "In Progress">>}

\* a board worked along the state flow: the state file starts without tasks,
\* tasks are added on day 1 and update moves them along the flow
BoardInit ==
    /\ EngineIdle /\ ProbeIdle /\ NoiseIdle /\ RunnerIdle
    /\ stateFile = [projectPrefix |-> "", tasks |-> <<>>, updatedAt |-> 0]
    /\ cli = NoOutput

AddCmd ==
    \E priority \in Priorities :
        /\ Len(stateFile.tasks) < MaxTasks
        /\ Add([priority |-> priority, dependsOn |-> <<>>], 1)

UpdateCmd ==
    \E i \in 1..Len(stateFile.tasks) : \E state \in {VALID_STATES[j] : j \in 1..6} :
        /\ <<stateFile.tasks[i].state, state>> \in StateFlow
        /\ UpdateState([id |-> stateFile.tasks[i].id, state |-> state], {}, 1)

PlanCmd == Plan(DEFAULT_MAX_PARALLEL)

BoardNext == AddCmd \/ UpdateCmd \/ NextCmd \/ PlanCmd

SpecBoard == BoardInit /\ [][BoardNext]_vars

\* a task of an existing state file
Existing(prefix, digits, createdAt) ==
    [id |-> <<prefix, digits>>, priority |-> "P1", state |-> "Backlog",
     createdAt |-> createdAt, startedAt |-> 0, completedAt |-> 0,
     lastFailedAt |-> 0, failCount |-> 0, dependsOn |-> <<>>]

\* state files the commands are run on: without tasks, with a gap before the
\* first id, with an id of another prefix, with the last three-digit id, and
\* with two tasks listed newest first
ExistingFiles ==
    {[projectPrefix |-> "", tasks |-> <<>>, updatedAt |-> 0],
     [projectPrefix |-> "UT", tasks |-> <<>>, updatedAt |-> 0],
     [projectPrefix |-> "UT", tasks |-> <<Existing("UT", <<0, 0, 7>>, 1)>>,
      updatedAt |-> 0],
     [projectPrefix |-> "", tasks |-> <<Existing("UT", <<0, 0, 3>>, 1)>>,
      updatedAt |-> 0],
     [projectPrefix |-> "UT", tasks |-> <<Existing("UT", <<9, 9, 9>>, 1)>>,
      updatedAt |-> 0],
     [projectPrefix |-> "UT", tasks |-> <<Existing("UT", <<0, 0, 2>>, 2),
                                          Existing("UT", <<0, 0, 1>>, 1)>>,
      updatedAt |-> 0]}

\* add on later days to an existing file; update only starts tasks
FilesInit ==
    /\ EngineIdle /\ ProbeIdle /\ NoiseIdle /\ RunnerIdle
    /\ stateFile \in ExistingFiles
    /\ cli = NoOutput

AddOnDayCmd ==
    \E priority \in Priorities : \E today \in Days :
        /\ Len(stateFile.tasks) < MaxTasks
        /\ \A i \in DOMAIN stateFile.tasks : stateFile.tasks[i].createdAt <= today
        /\ Add([priority |-> priority, dependsOn |-> <<>>], today)

StartCmd ==
    \E i \in 1..Len(stateFile.tasks) :
        UpdateState([id |-> stateFile.tasks[i].id, state |-> "In Progress"], {}, 1)

FilesNext == AddOnDayCmd \/ StartCmd \/ NextCmd \/ PlanCmd

SpecFiles == FilesInit /\ [][FilesNext]_vars

\* tasks with dependencies: every task is added on day 1 and update only
\* completes tasks
DepsInit ==
    /\ EngineIdle /\ ProbeIdle /\ NoiseIdle /\ RunnerIdle
    /\ stateFile = [projectPrefix |-> "UT", tasks |-> <<>>, updatedAt |-> 0]
    /\ cli = NoOutput

AddDependentCmd ==
    \E priority \in Priorities :
        \E dependsOn \in DependsOnChoices(PrefixOf(stateFile)) :
            /\ Len(stateFile.tasks) < MaxTasks
            /\ Add([priority |-> priority, dependsOn |-> dependsOn], 1)

CompleteCmd ==
    \E i \in 1..Len(stateFile.tasks) :
        UpdateState([id |-> stateFile.tasks[i].id, state |-> "Done"], {}, 1)

PlanWithCmd == \E maxParallel \in {0, 1, DEFAULT_MAX_PARALLEL} : Plan(maxParallel)

DepsNext == AddDependentCmd \/ CompleteCmd \/ NextCmd \/ PlanWithCmd

SpecDeps == DepsInit /\ [][DepsNext]_vars

\* a task of a planned board, added on day 1 and moved to its state on day 1
Planned(n, priority, state, dependsOn) ==
    [id |-> TaskId("UT", n), priority |-> priority, state |-> state,
     createdAt |-> 1,
     startedAt |-> IF state \in {"In Progress", "Testing"} THEN 1 ELSE 0,
     completedAt |-> IF state = "Done" THEN 1 ELSE 0,
     lastFailedAt |-> 0, failCount |-> 0, dependsOn |-> dependsOn]

\* the boards plan is run on: four tasks whose dependencies point at earlier
\* tasks or at an id no task has; the first task is in any of four states, the
\* second is waiting or done, the last two wait
PlannedBoards ==
    {<<Planned(1, "P1", first, <<>>),
       Planned(2, "P1", second, depends2),
       Planned(3, priority3, "Backlog", depends3),
       Planned(4, priority4, "Backlog", depends4)>> :
        first \in {"Backlog", "In Progress", "Testing", "Done"},
        second \in {"Backlog", "Done"},
        depends2 \in {<<>>, <<TaskId("UT", 1)>>},
        priority3 \in {"P0", "P2"},
        priority4 \in {"P0", "P1"},
        depends3 \in {<<>>, <<TaskId("UT", 1)>>, <<TaskId("UT", 2)>>},
        depends4 \in {<<>>, <<TaskId("UT", 3)>>, <<UnknownId>>}}

PlanInit ==
    /\ EngineIdle /\ ProbeIdle /\ NoiseIdle /\ RunnerIdle
    /\ \E tasks \in PlannedBoards :
          stateFile = [projectPrefix |-> "UT", tasks |-> tasks, updatedAt |-> 1]
    /\ cli = NoOutput

\* node sprint-board.mjs plan [--max-parallel n]
PlanAnyCmd == \E maxParallel \in {0, 1, DEFAULT_MAX_PARALLEL} : Plan(maxParallel)

PlanNext == PlanAnyCmd

SpecPlan == PlanInit /\ [][PlanNext]_vars

\* latest time of an update
MaxClock == 2

\* a task of an existing state file that was started at time 1
Started(prefix, digits) ==
    [Existing(prefix, digits, 1) EXCEPT !.state = "In Progress", !.startedAt = 1]

\* state files update is run on: one task not started, one task in progress
UpdateFiles ==
    {[projectPrefix |-> "UT", tasks |-> <<Existing("UT", <<0, 0, 1>>, 1)>>,
      updatedAt |-> 0],
     [projectPrefix |-> "UT", tasks |-> <<Started("UT", <<0, 0, 1>>)>>,
      updatedAt |-> 1]}

\* update with every --state, with and without --reset-fail-count, while the
\* clock runs on
UpdateInit ==
    /\ EngineIdle /\ ProbeIdle /\ NoiseIdle /\ RunnerIdle
    /\ stateFile \in UpdateFiles
    /\ cli = NoOutput

UpdateAtCmd ==
    \E i \in 1..Len(stateFile.tasks) :
        \E state \in {VALID_STATES[j] : j \in 1..6} \cup {""} :
            \E flags \in SUBSET {"reset-fail-count"} :
                \E now \in {stateFile.updatedAt, stateFile.updatedAt + 1} :
                    /\ now >= 1 /\ now <= MaxClock
                    /\ UpdateState([id |-> stateFile.tasks[i].id, state |-> state],
                                   flags, now)

UpdateNext == UpdateAtCmd

SpecUpdate == UpdateInit /\ [][UpdateNext]_vars

VALID_FAILURE_TYPES == {"gate", "acceptance", "review"}

\* the run of updateTask(state, options, flags) at time now, with options =
\* [id, state, failureType, priority] ("" for an option that is not given):
\* the state object in memory when it returns or throws, and the message of the
\* Error it throws ("" when it returns)
updateTaskRun(state, options, flags, now) ==
    LET i == FindTask(state.tasks, options.id, 1)
        marked == [state EXCEPT !.tasks[i].state = "Failed",
                                !.tasks[i].failCount = @ + 1,
                                !.tasks[i].lastFailedAt = now]
        updated == updateTask(state, options, flags, now)
    IN  IF i = 0 THEN [memory |-> state, error |-> "Task not found"]
        ELSE IF options.state # ""
                  /\ \A j \in 1..Len(VALID_STATES) : VALID_STATES[j] # options.state
          THEN [memory |-> state, error |-> "Invalid state"]
        ELSE IF options.state = "Failed" /\ options.failureType # ""
                  /\ options.failureType \notin VALID_FAILURE_TYPES
          THEN [memory |-> marked, error |-> "Invalid --failure-type"]
        ELSE IF options.priority # ""
                  /\ options.priority \notin {"P0", "P1", "P2", "P3"}
          THEN [memory |-> [updated EXCEPT !.updatedAt = state.updatedAt],
                error |-> "Invalid priority"]
        ELSE [memory |->
                  [updated EXCEPT !.tasks[i].priority =
                      IF options.priority # "" THEN options.priority ELSE @],
              error |-> ""]

\* a command that writes the state object whether or not updateTask threw
WrittenAnyway(before, run) == run.memory

\* the state file after main ran updateTask: writeState comes after the call,
\* so nothing is written when it throws
Written(before, run) == IF run.error = "" THEN run.memory ELSE before

\* node sprint-board.mjs update --id .. [--state ..] [--failure-type ..]
\*     [--priority ..] [--reset-fail-count]
UpdateRun(options, flags, now) ==
    /\ (options.state = "Failed" /\ FindTask(stateFile.tasks, options.id, 1) # 0) =>
          stateFile.tasks[FindTask(stateFile.tasks, options.id, 1)].failCount
              < MaxFailCount
    /\ \E run \in {updateTaskRun(stateFile, options, flags, now)} :
          /\ stateFile' = Written(stateFile, run)
          /\ cli' = [command |-> "update",
                     argv |-> [id |-> options.id, state |-> options.state,
                               failureType |-> options.failureType,
                               priority |-> options.priority, flags |-> flags],
                     status |-> IF run.error = "" THEN 0 ELSE 1,
                     out |-> IF run.error = ""
                               THEN <<options.id,
                                      run.memory.tasks[FindTask(run.memory.tasks,
                                                                options.id, 1)].state>>
                             ELSE <<"Error", run.error>>,
                     wrote |-> IF run.error = "" THEN {"state-file", "board-file"}
                               ELSE {}]
    /\ UNCHANGED <<engineVars, probeVars, noiseVars, runnerVars>>

\* update with known and unknown ids and with valid and invalid values of
\* --state, --failure-type and --priority, each run later than the last write
UpdateAnyCmd ==
    \E id \in {TaskId("UT", 1), UnknownId} :
        \E state \in {"", "In Progress", "Failed", "Done", "Limbo"} :
            \E failureType \in {"", "gate", "flaky"} :
                \E priority \in {"", "P0", "P9"} :
                    \E flags \in SUBSET {"reset-fail-count"} :
                        \E now \in {stateFile.updatedAt + 1} :
                            /\ now <= MaxClock
                            /\ UpdateRun([id |-> id, state |-> state,
                                          failureType |-> failureType,
                                          priority |-> priority], flags, now)

RejectNext == UpdateAnyCmd

SpecReject == UpdateInit /\ [][RejectNext]_vars

----------------------------------------------------------------------------
(* Parallel runner (scripts/va-parallel-runner.mjs).  JavaScript runs each   *)
(* callback to completion, so a step is the code between two awaits.         *)

\* most tracks of a plan and largest --max-workers
MaxTracks == 3

MaxWorkers == 3

\* the n-th track of a plan: tasks UT-002, UT-003, ...
Track(n) == [taskId |-> TaskId("UT", n + 1)]

\* how a track's subprocess ends: exit code 0, another exit code, or killed by
\* the timeout
Outcomes == {"pass", "fail", "timeout"}

\* what runTrack resolves with when the subprocess closes
TrackResult(taskId, outcome) ==
    [taskId |-> taskId, success |-> outcome = "pass",
     timedOut |-> outcome = "timeout",
     exitCode |-> IF outcome = "pass" THEN 0 ELSE IF outcome = "fail" THEN 1 ELSE -1]

\* a hole of Array(items.length)
Hole == [taskId |-> <<>>, success |-> FALSE, timedOut |-> FALSE, exitCode |-> 0]

\* a pool with one worker loop for every item
WorkerCountPerItem(items, maxWorkers) == Len(items)

\* Math.max(1, Math.min(maxWorkers, items.length))
WorkerCount(items, maxWorkers) ==
    IF maxWorkers < Len(items)
      THEN (IF maxWorkers > 1 THEN maxWorkers ELSE 1)
      ELSE (IF Len(items) > 1 THEN Len(items) ELSE 1)

\* workerLoop of worker w from the top of its loop to its next await or its
\* return: take the cursor, advance it, and start worker(items[index], index)
\* unless the items are used up (index holds the item's position from 1 on)
WorkerLoop(p, w) ==
    IF p.cursor >= Len(p.items)
      THEN [p EXCEPT !.cursor = @ + 1,
                     !.workers[w] = [index |-> 0, done |-> TRUE]]
      ELSE [p EXCEPT !.cursor = @ + 1,
                     !.workers[w] = [index |-> p.cursor + 1, done |-> FALSE],
                     !.started[p.cursor + 1] = @ + 1]

\* Array.from({ length: workerCount }, () => workerLoop()): the loops w..count
\* are called one after the other, each running up to its first await
RECURSIVE CallLoops(_, _, _)
CallLoops(p, w, count) ==
    IF w > count THEN p ELSE CallLoops(WorkerLoop(p, w), w + 1, count)

PoolInit ==
    /\ EngineIdle /\ ProbeIdle /\ NoiseIdle /\ BoardIdle
    /\ \E n \in 1..MaxTracks : \E maxWorkers \in 1..MaxWorkers :
          pool = [NoPool EXCEPT !.phase = "called",
                                !.items = [i \in 1..n |-> Track(i)],
                                !.maxWorkers = maxWorkers]

\* runWithWorkerPool(items, maxWorkers, worker) up to await Promise.all
RunWithWorkerPool ==
    /\ pool.phase = "called"
    /\ \E count \in {WorkerCount(pool.items, pool.maxWorkers)} :
          pool' = CallLoops([pool EXCEPT
                                !.phase = "running",
                                !.results = [i \in DOMAIN pool.items |-> Hole],
                                !.started = [i \in DOMAIN pool.items |-> 0],
                                !.workers = [w \in 1..count |->
                                                [index |-> 0, done |-> FALSE]]],
                            1, count)
    /\ UNCHANGED <<engineVars, probeVars, noiseVars, boardVars>>

\* the subprocess of the track worker w waits for closes: the await in
\* workerLoop resumes, stores the result at the track's index and loops
TrackClosed ==
    /\ pool.phase = "running"
    /\ \E w \in DOMAIN pool.workers : \E outcome \in Outcomes :
          /\ pool.workers[w].index # 0 /\ ~pool.workers[w].done
          /\ pool' = WorkerLoop(
                [pool EXCEPT !.results[pool.workers[w].index] =
                    TrackResult(pool.items[pool.workers[w].index].taskId, outcome)],
                w)
    /\ UNCHANGED <<engineVars, probeVars, noiseVars, boardVars>>

\* every workerLoop has returned: Promise.all resolves and runWithWorkerPool
\* returns results
PoolReturns ==
    /\ pool.phase = "running"
    /\ \A w \in DOMAIN pool.workers : pool.workers[w].done
    /\ pool' = [pool EXCEPT !.phase = "returned", !.returned = pool.results]
    /\ UNCHANGED <<engineVars, probeVars, noiseVars, boardVars>>

PoolNext == RunWithWorkerPool \/ TrackClosed \/ PoolReturns

SpecPool == PoolInit /\ [][PoolNext]_vars

\* a task as readState of the runner normalises it: the fields
\* applyStateTransitions reads or writes
RunnerTask(n, state, failCount, reason) ==
    [id |-> TaskId("UT", n), state |-> state, failCount |-> failCount,
     reason |-> reason,
     startedAt |-> IF state = "Backlog" THEN 0 ELSE 1,
     lastFailedAt |-> IF failCount > 0 THEN 1 ELSE 0]

\* the first loop of applyStateTransitions over the tracks from the t-th on:
\* the ids of the runnable tasks, and Backlog tasks moved to In Progress
RECURSIVE MarkRunnable(_, _, _, _, _)
MarkRunnable(state, tracks, timestamp, mutableTaskIds, t) ==
    IF t > Len(tracks) THEN [state |-> state, mutableTaskIds |-> mutableTaskIds]
    ELSE
      LET i == FindTask(state.tasks, tracks[t].taskId, 1)
      IN  IF i = 0 \/ state.tasks[i].state \notin {"Backlog", "In Progress"}
            THEN MarkRunnable(state, tracks, timestamp, mutableTaskIds, t + 1)
          ELSE MarkRunnable(
                 IF state.tasks[i].state = "Backlog"
                   THEN [state EXCEPT !.tasks[i].state = "In Progress",
                                      !.tasks[i].startedAt =
                                          IF @ = 0 THEN timestamp ELSE @]
                   ELSE state,
                 tracks, timestamp, mutableTaskIds \cup {tracks[t].taskId}, t + 1)

\* the second loop of applyStateTransitions over the tracks from the t-th on;
\* resultsByTaskId is the Map of the results by task id
RECURSIVE Settle(_, _, _, _, _, _)
Settle(state, tracks, resultsByTaskId, timestamp, mutableTaskIds, t) ==
    IF t > Len(tracks) THEN state
    ELSE
      LET id == tracks[t].taskId
          i == FindTask(state.tasks, id, 1)
      IN  IF id \notin mutableTaskIds \/ i = 0 \/ id \notin DOMAIN resultsByTaskId
            THEN Settle(state, tracks, resultsByTaskId, timestamp, mutableTaskIds,
                        t + 1)
          ELSE IF resultsByTaskId[id].success
            THEN Settle([state EXCEPT !.tasks[i].state = "Review",
                                      !.tasks[i].reason = ""],
                        tracks, resultsByTaskId, timestamp, mutableTaskIds, t + 1)
          ELSE Settle([state EXCEPT
                          !.tasks[i].state = "Failed",
                          !.tasks[i].failCount = @ + 1,
                          !.tasks[i].lastFailedAt = timestamp,
                          !.tasks[i].reason =
                              IF resultsByTaskId[id].timedOut
                                THEN "parallel track timed out"
                                ELSE "parallel track exited with code"],
                      tracks, resultsByTaskId, timestamp, mutableTaskIds, t + 1)

\* applyStateTransitions(state, tracks, resultsByTaskId) at time timestamp
applyStateTransitions(state, tracks, resultsByTaskId, timestamp) ==
    LET marked == MarkRunnable(state, tracks, timestamp, {}, 1)
    IN  [Settle(marked.state, tracks, resultsByTaskId, timestamp,
                marked.mutableTaskIds, 1)
            EXCEPT !.updatedAt = timestamp]

\* new Map(results.map((result) => [result.taskId, result])): a later result
\* of a task id replaces an earlier one
ResultMap(results) ==
    [id \in {results[t].taskId : t \in DOMAIN results} |->
        results[CHOOSE t \in DOMAIN results :
                    /\ results[t].taskId = id
                    /\ \A u \in DOMAIN results : results[u].taskId = id => u <= t]]

\* the state files the runner is run on: a first task in any state and a
\* second that waits or is in progress, with and without earlier failures
RunnerFiles ==
    {[projectPrefix |-> "UT",
      tasks |-> <<RunnerTask(2, first, failCount, "needs review"),
                  RunnerTask(3, second, 0, "")>>,
      updatedAt |-> 1] :
        first \in {VALID_STATES[j] : j \in 1..6},
        second \in {"Backlog", "In Progress"},
        failCount \in {0, 1}}

\* the parallelTracks of a plan file: one or two entries naming tasks of the
\* file or a task it does not hold; readPlan takes the entries as they are
PlanTracks ==
    {<<[taskId |-> a]>> : a \in {TaskId("UT", 2), TaskId("UT", 3), UnknownId}}
        \cup {<<[taskId |-> a], [taskId |-> b]>> :
                a \in {TaskId("UT", 2), TaskId("UT", 3)},
                b \in {TaskId("UT", 2), TaskId("UT", 3), UnknownId}}

SpawnInit ==
    /\ EngineIdle /\ ProbeIdle /\ NoiseIdle /\ RunnerIdle
    /\ stateFile \in RunnerFiles
    /\ cli = NoOutput

\* node va-parallel-runner.mjs spawn --plan-file ..: the tracks have run and
\* the pool returned one result for each, at the index of its track
SpawnCmd ==
    \E tracks \in PlanTracks :
        \E outcomes \in [DOMAIN tracks -> Outcomes] :
            \E results \in {[t \in DOMAIN tracks |->
                                TrackResult(tracks[t].taskId, outcomes[t])]} :
                /\ stateFile.updatedAt < MaxClock
                /\ stateFile' = applyStateTransitions(stateFile, tracks,
                                    ResultMap(results), stateFile.updatedAt + 1)
                /\ cli' = [command |-> "spawn",
                           argv |-> [tracks |-> tracks],
                           status |-> IF \E t \in DOMAIN results : ~results[t].success
                                        THEN 1 ELSE 0,
                           out |-> results]
                /\ UNCHANGED <<engineVars, probeVars, noiseVars, runnerVars>>

SpawnNext == SpawnCmd

SpecSpawn == SpawnInit /\ [][SpawnNext]_vars

----------------------------------------------------------------------------
(* Vocabulary of the properties *)

\* the LOD policy as the specification states it, ring by ring
RingLod(d) == IF d <= 1 THEN 52 ELSE IF d = 2 THEN 30 ELSE 18

\* the chunk coordinates within Chebyshev distance r of (cx, cz)
Within(cx, cz, r) == {<<x, z>> : x \in (cx - r)..(cx + r), z \in (cz - r)..(cz + r)}

Dist(k, cx, cz) == Max(Abs(k[1] - cx), Abs(k[2] - cz))

\* the map c holds exactly the tiles within radius 3 of (cx, cz), each at its
\* ring's LOD: 9 at 52, 16 at 30, 24 at 18
ExactlyDesired(c, cx, cz) ==
    /\ DOMAIN c = Within(cx, cz, 3)
    /\ Cardinality(DOMAIN c) = 49
    /\ \A k \in DOMAIN c : c[k].lod = RingLod(Dist(k, cx, cz))
    /\ Cardinality({k \in DOMAIN c : c[k].lod = 52}) = 9
    /\ Cardinality({k \in DOMAIN c : c[k].lod = 30}) = 16
    /\ Cardinality({k \in DOMAIN c : c[k].lod = 18}) = 24

QueuedKeys == {chunkQueue[i].key : i \in DOMAIN chunkQueue}

\* the engine's fields now
Now == Current(terrainField, -1)

FocusNow == Focus(params.mode, orbitTarget, firstPersonPosition)

\* processChunkQueue(n) called again and again until the queue is empty
RECURSIVE Drain(_, _)
Drain(e, n) ==
    IF e.chunkQueue = <<>> THEN e
    ELSE Drain(processChunkQueue(e, n), n)

----------------------------------------------------------------------------
(* C1  Convergence.  From a freshly constructed or just-reset streamer, once
   the queue has been drained by processChunkQueue calls with the focus chunk
   unchanged, the resident map is exactly the desired set: the 49 tiles within
   Chebyshev radius 3 of the focus chunk, 9 at lod 52, 16 at lod 30, 24 at lod
   18, and nothing else.  Checked on the frames the engine runs (budget 3) and,
   from every state a constructor or reset leaves, for every constant budget
   1..MaxBudget. *)
C1_Convergence ==
    /\ (focusHeld /\ ~disposed /\ chunkQueue = <<>>)
          => ExactlyDesired(chunks, currentChunkX, currentChunkZ)
    /\ (last.reset /\ ~disposed)
          => \A n \in 1..MaxBudget :
                ExactlyDesired(Drain(Now, n).chunks, currentChunkX, currentChunkZ)

\* the frame that builds the last queued tiles after a reset
C1_Witness ==
    /\ focusHeld /\ ~disposed /\ chunkQueue = <<>>
    /\ last.op = "animate" /\ last.created > 0
    /\ terrainField = "demo"
    /\ Cardinality(DOMAIN chunks) = 49

(* C2  Retry after movement.  While the focus stays inside one chunk and frames
   keep running, every tile within Chebyshev radius chunkRadius of the focus
   chunk eventually becomes resident at its ring's LOD.  A frame is a function
   of the engine's state and the focus, so once a frame with the focus at rest
   changes nothing, no later one does: in such a state the claim requires every
   desired tile to be resident already. *)
StillFrame == processChunkQueue(syncChunks(Now, FocusNow, FALSE), FrameBudget)

FrameAtRest ==
    /\ ~disposed /\ frameHandle
    /\ StillFrame.chunks = chunks
    /\ StillFrame.chunkQueue = chunkQueue
    /\ StillFrame.pendingChunkKeys = pendingChunkKeys
    /\ StillFrame.currentChunkX = currentChunkX
    /\ StillFrame.currentChunkZ = currentChunkZ

C2_RetryAfterMovement ==
    FrameAtRest =>
        \A k \in Within(ChunkCoord(FocusNow[1]), ChunkCoord(FocusNow[2]), chunkRadius) :
            /\ k \in DOMAIN chunks
            /\ chunks[k].lod = RingLod(Dist(k, ChunkCoord(FocusNow[1]),
                                            ChunkCoord(FocusNow[2])))

(* C3  Resident-LOD invariant.  Every resident chunk lies within Chebyshev
   radius chunkRadius of the last synced focus chunk and has the LOD of its
   ring; whatever budget processChunkQueue is called with, a popped request
   that is out of radius or carries another LOD than its ring's is not
   inserted. *)
ResidentAtRingLod(c, cx, cz) ==
    \A k \in DOMAIN c :
        /\ Dist(k, cx, cz) <= chunkRadius
        /\ c[k].lod = RingLod(Dist(k, cx, cz))

C3_ResidentLod ==
    /\ currentChunkX # NaN /\ currentChunkZ # NaN
    /\ ResidentAtRingLod(chunks, currentChunkX, currentChunkZ)
    /\ ResidentAtRingLod(processChunkQueue(Now, MaxBudget).chunks,
                         currentChunkX, currentChunkZ)

\* a frame popped a stale request and dropped it
C3_Witness ==
    /\ last.op = "animate" /\ last.discarded > 0 /\ last.created > 0
    /\ ~disposed

(* C4  No duplicate pending.  The pending queue holds at most one request per
   chunk key and every queued key is in pendingChunkKeys; in particular a sync
   did not enqueue a key that was already pending, whatever LOD the queued
   request carries. *)
C4_NoDuplicatePending ==
    /\ Cardinality(QueuedKeys) = Len(chunkQueue)
    /\ QueuedKeys \subseteq pendingChunkKeys

\* a sync ran for a new focus chunk while a still-desired tile was queued with
\* the LOD of its old ring
C4_Witness ==
    /\ last.op = "animate" /\ ~last.coalesced
    /\ \E i \in DOMAIN chunkQueue :
          LET d == Dist(chunkQueue[i].key, currentChunkX, currentChunkZ)
          IN  d <= chunkRadius /\ chunkQueue[i].lod # RingLod(d)

(* C5  Build failure does not corrupt bookkeeping.  When createChunk throws in
   processChunkQueue or in an immediate build of syncChunks, the failed
   request's key is released from pendingChunkKeys: after the failure it is
   neither resident nor pending. *)
C5_ReleasedOnFailure ==
    last.threw =>
        /\ last.failedKey \notin pendingChunkKeys
        /\ last.failedKey \notin DOMAIN chunks

(* C6  First-frame guarantee.  When the constructor's or a reset's
   syncChunks(true) has returned, and before any processChunkQueue call, the 9
   tiles of the 3x3 block around the focus chunk are resident with lod 52 and
   none of them is queued or in pendingChunkKeys, while the 40 tiles at distance
   2 and 3 are queued and not resident. *)
C6_FirstFrame ==
    (last.reset /\ ~disposed) =>
        LET block == Within(currentChunkX, currentChunkZ, 1)
            rings == Within(currentChunkX, currentChunkZ, 3) \ block
        IN  /\ Cardinality(block) = 9
            /\ \A k \in block :
                  /\ k \in DOMAIN chunks /\ chunks[k].lod = 52
                  /\ k \notin pendingChunkKeys
                  /\ k \notin QueuedKeys
            /\ last.created = 9
            /\ Cardinality(rings) = 40
            /\ QueuedKeys = rings
            /\ Len(chunkQueue) = 40
            /\ \A k \in rings : k \notin DOMAIN chunks

\* a seed change reset a streamer that had moved and was partly drained
C6_Witness ==
    /\ last.reset /\ ~disposed
    /\ last.op = "updateParams" /\ last.released > 9
    /\ moves > 0

(* C7  Dequeue order.  The queue is in non-decreasing order of the requests'
   distance values after every handler, whatever the order of enqueueing; the
   requests a processChunkQueue call pops come off in non-decreasing distance,
   and none of them has a larger distance value than a request left in the
   queue. *)
C7_DequeueOrder ==
    /\ \A i \in 1..(Len(chunkQueue) - 1) :
          chunkQueue[i].distance <= chunkQueue[i + 1].distance
    /\ \A i \in 1..(Len(last.popped) - 1) :
          last.popped[i] <= last.popped[i + 1]
    /\ \A i \in DOMAIN last.popped : \A j \in DOMAIN chunkQueue :
          last.popped[i] <= chunkQueue[j].distance

\* a sync for a new focus chunk appended nearer requests behind older farther
\* ones, and the frame then popped some
C7_Witness ==
    /\ last.op = "animate" /\ ~last.coalesced
    /\ Len(last.popped) >= 2
    /\ last.popped[1] < last.popped[Len(last.popped)]
    /\ chunkQueue # <<>>

(* C8  Generation budget.  One processChunkQueue(maxPerFrame) call creates and
   inserts at most maxPerFrame chunks, for every queue and focus the engine
   reaches and every budget 0..MaxBudget; a frame builds at most 3; and a call
   with budget 0 or on an empty queue changes nothing. *)
C8_GenerationBudget ==
    /\ last.op = "animate" => last.created <= 3
    /\ \A n \in 0..MaxBudget :
          LET r == processChunkQueue(Now, n)
          IN  /\ r.created <= n
              /\ Cardinality(DOMAIN r.chunks \ DOMAIN chunks) <= n
              /\ (n = 0 \/ chunkQueue = <<>>) =>
                    /\ r.chunks = chunks
                    /\ r.chunkQueue = chunkQueue
                    /\ r.pendingChunkKeys = pendingChunkKeys

\* a frame used its whole budget, dropped stale requests besides, and left work
C8_Witness ==
    /\ last.op = "animate" /\ last.created = 3 /\ last.discarded > 0
    /\ Len(chunkQueue) > 3

(* C9  Seed change means full reset.  Every resident chunk was built from the
   current seed's TerrainField, which is the field of params.seed; an
   updateParams with a new seed disposes every resident chunk and leaves what a
   syncChunks(true) from an empty streamer leaves; an updateParams with the seed
   unchanged leaves resident, queue and pendingChunkKeys as they were. *)
C9_SeedInvariant ==
    /\ terrainField = params.seed
    /\ \A k \in DOMAIN chunks : chunks[k].field = terrainField

C9_SeedStep ==
    UpdateParams =>
        IF params'.seed = params.seed \/ disposed
          THEN UNCHANGED <<chunks, chunkQueue, pendingChunkKeys>>
          ELSE /\ last'.released = Cardinality(DOMAIN chunks)
               /\ LET fresh == syncChunks(Exec(EmptyMap, <<>>, {}, NaN, NaN,
                                               params'.seed, -1),
                                          Focus(params'.mode, orbitTarget,
                                                firstPersonPosition), TRUE)
                  IN  /\ chunks' = fresh.chunks
                      /\ chunkQueue' = fresh.chunkQueue
                      /\ pendingChunkKeys' = fresh.pendingChunkKeys

C9_SeedReset == []C9_SeedInvariant /\ [][C9_SeedStep]_vars

\* the seed was changed while chunks of the old seed were resident
C9_Witness ==
    /\ last.reset /\ last.op = "updateParams" /\ last.released > 0
    /\ terrainField = "demo" /\ params.seed = "demo"
    /\ chunks # EmptyMap

(* C10  Idempotent reset.  In the state a resetChunks (or the constructor's
   first sync) has left, with the focus still in the same chunk and the seed
   unchanged, a second resetChunks leaves the same resident chunks (keys and
   LODs) and the same pending queue (keys, LODs and order). *)
C10_IdempotentReset ==
    (/\ last.reset /\ ~disposed
     /\ ChunkCoord(FocusNow[1]) = currentChunkX
     /\ ChunkCoord(FocusNow[2]) = currentChunkZ)
        => LET again == resetChunks(Now, FocusNow)
           IN  /\ again.chunks = chunks
               /\ again.chunkQueue = chunkQueue
               /\ again.pendingChunkKeys = pendingChunkKeys
               /\ again.released = Cardinality(DOMAIN chunks)

\* a reset of a streamer that held chunks and queued requests of another focus
C10_Witness ==
    /\ last.reset /\ ~disposed /\ last.op = "updateParams"
    /\ ChunkCoord(FocusNow[1]) = currentChunkX
    /\ ChunkCoord(FocusNow[2]) = currentChunkZ
    /\ ~(currentChunkX = -1 /\ currentChunkZ \in {0, 1})
    /\ last.released > 9

(* C11  One-chunk move keeps unaffected tiles.  In a converged state (queue
   and pending set empty, exactly the 49 ring tiles resident) whose focus has
   moved by exactly one chunk in x, syncChunks(false) creates no chunk; every
   resident tile still within chunkRadius whose ring LOD is unchanged stays
   resident as the same chunk, not disposed and not queued; the 7 tiles of the
   trailing column are evicted and not queued; the 7 tiles of the new leading
   column are queued, once each, and not resident. *)
Converged ==
    /\ ~disposed /\ frameHandle
    /\ chunkQueue = <<>> /\ pendingChunkKeys = {}
    /\ currentChunkX # NaN /\ currentChunkZ # NaN
    /\ ExactlyDesired(chunks, currentChunkX, currentChunkZ)

OneChunkMoveX ==
    /\ ChunkCoord(FocusNow[1]) - currentChunkX \in {-1, 1}
    /\ ChunkCoord(FocusNow[2]) = currentChunkZ

C11_OneChunkMove ==
    (Converged /\ OneChunkMoveX) =>
        LET s == syncChunks(Now, FocusNow, FALSE)
            nx == ChunkCoord(FocusNow[1])
            nz == ChunkCoord(FocusNow[2])
            dir == nx - currentChunkX
            queued == {s.chunkQueue[i].key : i \in DOMAIN s.chunkQueue}
            unaffected == {k \in DOMAIN chunks :
                             /\ Dist(k, nx, nz) <= chunkRadius
                             /\ RingLod(Dist(k, nx, nz))
                                   = RingLod(Dist(k, currentChunkX, currentChunkZ))}
            trailing == {k \in DOMAIN chunks : k[1] = currentChunkX - dir * chunkRadius}
            leading == {<<nx + dir * chunkRadius, z>> :
                           z \in (nz - chunkRadius)..(nz + chunkRadius)}
        IN  /\ s.created = 0
            /\ unaffected # {}
            /\ \A k \in unaffected :
                  /\ k \in DOMAIN s.chunks
                  /\ s.chunks[k] = chunks[k]
                  /\ s.chunks[k].live
                  /\ chunks[k] \notin s.disposedChunks
                  /\ k \notin queued
                  /\ k \notin s.pendingChunkKeys
            /\ Cardinality(trailing) = 7
            /\ \A k \in trailing :
                  /\ k \notin DOMAIN s.chunks
                  /\ chunks[k] \in s.disposedChunks
                  /\ k \notin queued
            /\ Cardinality(leading) = 7
            /\ \A k \in leading :
                  /\ k \notin DOMAIN s.chunks
                  /\ k \in s.pendingChunkKeys
                  /\ Cardinality({i \in DOMAIN s.chunkQueue :
                                     s.chunkQueue[i].key = k}) = 1

\* the orbit target's ring was fully built, and a switch to first person put
\* the focus one chunk to the west; the sync of the next frame is the one meant
C11_Witness ==
    /\ Converged /\ OneChunkMoveX
    /\ params.mode = "firstPerson" /\ moves = 1
    /\ syncChunks(Now, FocusNow, FALSE).released >= 7
    /\ Len(syncChunks(Now, FocusNow, FALSE).chunkQueue) >= 7

(* C12  No dangling handles, no double release.  No resident chunk has had
   disposeChunk called on it; in every handler each disposeChunk call is on a
   different chunk whose buffers still exist; and the chunks a handler hands to
   disposeChunk are exactly the chunks that were resident before it and are not
   resident as the same chunk after it (eviction in a sync, resetChunks,
   dispose; a second dispose() releases nothing). *)
C12_NoDangling ==
    /\ \A k \in DOMAIN chunks : chunks[k].live
    /\ last.released = Cardinality(last.disposedChunks)
    /\ \A c \in last.disposedChunks : c.live

C12_ReleaseStep ==
    /\ (chunks' # chunks \/ last' # last) =>
          last'.disposedChunks = Gone(chunks, chunks')
    /\ disposed => (chunks' = EmptyMap /\ last' = last)

C12_ReleaseOnce == []C12_NoDangling /\ [][C12_ReleaseStep]_vars

\* a frame's sync evicted chunks of a partly built ring after the focus moved,
\* and the frame rebuilt tiles at their new LOD
C12_Witness ==
    /\ last.op = "animate" /\ ~last.coalesced
    /\ last.released > 0 /\ last.created > 0
    /\ \E c \in last.disposedChunks :
          c.key \in DOMAIN chunks /\ chunks[c.key].lod # c.lod

(* C13  LOD monotonicity.  For ring distances d1 < d2, lodForDistance(d1) >=
   lodForDistance(d2); and lodForDistance returns 52 for a distance <= 1, 30
   for distance 2 and 18 for every distance >= 3. *)
C13_LodMonotone ==
    result # NoResult =>
        /\ call.args[1] < call.args[2] => result[1] >= result[2]
        /\ result[1] = RingLod(call.args[1])
        /\ result[2] = RingLod(call.args[2])
        /\ \A i \in {1, 2} :
              /\ call.args[i] <= 1 => result[i] = 52
              /\ call.args[i] = 2 => result[i] = 30
              /\ call.args[i] >= 3 => result[i] = 18

\* the function was applied to distance 2 and a farther ring, where the outer
\* tiers meet
C13_Witness ==
    /\ result # NoResult
    /\ call.args[1] = 2 /\ call.args[2] > 3
    /\ result[1] > result[2]

\* the seed of the field a sample was taken from
SeedOf(sample) == fields[sample.field].seed

\* two samples of one seed at one point have one height
SameHeights ==
    \A a, b \in DOMAIN samples :
        (/\ SeedOf(samples[a]) = SeedOf(samples[b])
         /\ samples[a].x = samples[b].x
         /\ samples[a].z = samples[b].z)
            => samples[a].height = samples[b].height

\* fields constructed from one seed hold the same tables
SameTables ==
    \A f, g \in DOMAIN fields :
        fields[f].seed = fields[g].seed => fields[f] = fields[g]

(* C14  Determinism.  Samples of one seed at one point return the identical
   height, whichever instance of the seed they are taken from and however
   many samples were taken before; instances constructed from one seed hold
   identical tables; and a sample leaves the tables of every field as they
   were. *)
C14_Determinism ==
    /\ [](SameHeights /\ SameTables)
    /\ [][fields' = fields]_vars

\* one point was sampled on two instances of one seed, the second sample after
\* the first
C14_Witness ==
    /\ Len(samples) = 2
    /\ samples[1].field = 1 /\ samples[2].field = 2
    /\ SeedOf(samples[1]) = SeedOf(samples[2])
    /\ samples[1].x = samples[2].x /\ samples[1].z = samples[2].z
    /\ samples[1].height # 0

\* the octave count and the gain fractal2D was called with
Octaves == call.args[3]

Gain == call.args[5]

(* C15  Fractal bound.  For every point, every octave count >= 1 and every
   positive gain, fractal2D returns a value in [-1, 1]; with octaves = 0 it
   returns 0. *)
C15_FractalBound ==
    (call.fn = "fractal2D" /\ result # NoResult) =>
        /\ (Octaves >= 1 /\ Gain > 0) => (result[1] >= -One /\ result[1] <= One)
        /\ Octaves = 0 => result[1] = 0

\* fractal2D summed several octaves of growing amplitude into a value away
\* from 0
C15_Witness ==
    /\ call.fn = "fractal2D" /\ result # NoResult
    /\ Octaves = MaxOctaves /\ Gain > One
    /\ Abs(result[1]) > One \div 2

----------------------------------------------------------------------------
(* Sprint board: vocabulary of the properties *)

Board == stateFile.tasks

\* the tasks of a state that next may return: in Backlog only those whose
\* dependencies are all ids of Done tasks
Eligible(state) ==
    {i \in DOMAIN Board :
        /\ Board[i].state = state
        /\ state = "Backlog" =>
              \A k \in DOMAIN Board[i].dependsOn :
                  \E j \in DOMAIN Board :
                      Board[j].id = Board[i].dependsOn[k] /\ Board[j].state = "Done"}

Precedence == <<"Failed", "Testing", "Review", "In Progress", "Backlog">>

Actions ==
    <<"fix-and-retest", "run-acceptance", "run-review", "continue-implementation",
      "start-task">>

\* the first state in the order of precedence that holds an eligible task, 0 if none
FirstHeld ==
    IF \E k \in 1..5 : Eligible(Precedence[k]) # {}
      THEN CHOOSE k \in 1..5 :
              /\ Eligible(Precedence[k]) # {}
              /\ \A j \in 1..(k - 1) : Eligible(Precedence[j]) = {}
      ELSE 0

\* the last command was next and this is what it printed
Printed(command) == cli.command = command /\ cli.status = 0

\* C16: next returns a task of the first state among Failed, Testing, Review,
\* In Progress, Backlog that holds an eligible task, whatever the priorities,
\* with the action of that state, and reports no actionable task only when
\* none of these states holds one.
C16_StatePrecedence ==
    LET next == findNextTask(Board)
    IN  /\ FirstHeld = 0 <=> next = NoTask
        /\ FirstHeld # 0 =>
              /\ next.state = Precedence[FirstHeld]
              /\ next.action = Actions[FirstHeld]
              /\ \E i \in Eligible(Precedence[FirstHeld]) : next.task = Board[i]
        /\ Printed("next") =>
              cli.out = IF FirstHeld = 0 THEN <<"No actionable task found.">>
                        ELSE <<next.task.id, Actions[FirstHeld]>>

\* next printed the P1 Failed task while a P0 task waits in Backlog
C16_Witness ==
    /\ Printed("next")
    /\ \E i, j \in DOMAIN Board :
          /\ Board[i].state = "Failed" /\ Board[i].priority = "P1"
          /\ Board[j].state = "Backlog" /\ Board[j].priority = "P0"
          /\ cli.out = <<Board[i].id, "fix-and-retest">>

\* the order of the claim on tasks: higher priority, then earlier createdAt,
\* then smaller id (ids compare as strings)
Rank(priority) ==
    CASE priority = "P0" -> 0 [] priority = "P1" -> 1
      [] priority = "P2" -> 2 [] priority = "P3" -> 3

NotAfter(a, b) ==
    \/ Rank(a.priority) < Rank(b.priority)
    \/ /\ Rank(a.priority) = Rank(b.priority)
       /\ \/ a.createdAt < b.createdAt
          \/ a.createdAt = b.createdAt /\ CompareIds(a.id, b.id) <= 0

\* the state files that list the tasks of the board in another order
Reorderings ==
    {[i \in DOMAIN Board |-> Board[p[i]]] :
        p \in {q \in [DOMAIN Board -> DOMAIN Board] :
                  \A i, j \in DOMAIN Board : i # j => q[i] # q[j]}}

\* C17: among the candidates of the selected state next returns the task of
\* highest priority, then earliest createdAt, then smallest id, and returns the
\* same task for every order of the tasks in the state file.
C17_OrderWithinState ==
    LET next == findNextTask(Board)
    IN  next # NoTask =>
          /\ \A i \in Eligible(next.state) : NotAfter(next.task, Board[i])
          /\ \A tasks \in Reorderings : findNextTask(tasks) = next
          /\ Printed("next") => cli.out = <<next.task.id, next.action>>

\* next printed a task that is not the first candidate in the state file: two
\* candidates of the same state, priority and day, the second with the smaller id
C17_Witness ==
    /\ Printed("next")
    /\ \E i, j \in DOMAIN Board :
          /\ i < j
          /\ Board[i].state = Board[j].state
          /\ Board[i].priority = Board[j].priority
          /\ Board[i].createdAt = Board[j].createdAt
          /\ cli.out[1] = Board[j].id
          /\ cli.out[1] # Board[i].id

\* the number a string of decimal digits denotes
Value(digits) ==
    LET RECURSIVE Upto(_)
        Upto(n) == IF n = 0 THEN 0 ELSE 10 * Upto(n - 1) + digits[n]
    IN  Upto(Len(digits))

\* the numeric suffixes of the ids of the state file with the given prefix
Suffixes(tasks, prefix) ==
    {Value(tasks[i].id[2]) : i \in {j \in DOMAIN tasks : tasks[j].id[1] = prefix}}

Largest(numbers) ==
    IF numbers = {} THEN 0 ELSE CHOOSE n \in numbers : \A k \in numbers : k <= n

\* digits is n written in decimal and zero-padded to three digits
PaddedTo3(digits, n) ==
    /\ Value(digits) = n
    /\ Len(digits) >= 3
    /\ Len(digits) > 3 => digits[1] # 0

PairwiseDistinctIds ==
    \A i, j \in DOMAIN Board : i # j => Board[i].id # Board[j].id

\* a step of add: the state file has one more task, and the last is new
C20_AddStep ==
    Len(stateFile'.tasks) = Len(Board) + 1 =>
        LET new == stateFile'.tasks[Len(stateFile'.tasks)]
            prefix == IF stateFile.projectPrefix = "" THEN "TASK"
                      ELSE stateFile.projectPrefix
        IN  /\ new.id[1] = prefix
            /\ PaddedTo3(new.id[2], Largest(Suffixes(Board, prefix)) + 1)
            /\ new.state = "Backlog"
            /\ new.failCount = 0
            /\ SubSeq(stateFile'.tasks, 1, Len(Board)) = Board
            /\ stateFile'.projectPrefix = stateFile.projectPrefix
            /\ cli'.command = "add" /\ cli'.status = 0 /\ cli'.out = <<new.id>>

\* C20: add gives the new task the id <prefix>-<n>, n one more than the largest
\* numeric suffix among the existing ids with that prefix (1 when there is
\* none), zero-padded to 3 digits, in state Backlog with failCount 0, leaves the
\* existing tasks unchanged, and the ids of the state file stay pairwise
\* distinct.
C20_SequentialIds == []PairwiseDistinctIds /\ [][C20_AddStep]_vars

\* add printed UT-008 for a state file whose only task was UT-007
C20_Witness ==
    /\ Printed("add")
    /\ cli.out = <<(<<"UT", <<0, 0, 8>>>>)>>
    /\ Len(Board) = 2
    /\ Board[1].id = <<"UT", <<0, 0, 7>>>>
    /\ Board[2].id = <<"UT", <<0, 0, 8>>>>

\* the task with the given id is Done
IsDone(id) == \E j \in DOMAIN Board : Board[j].id = id /\ Board[j].state = "Done"

\* every dependency of the i-th task is the id of a Done task
Unblocked(i) == \A k \in DOMAIN Board[i].dependsOn : IsDone(Board[i].dependsOn[k])

\* the values of plan's --max-parallel the property looks at
Parallelism == 0..MaxTasks

\* C18: a Backlog task is returned by next or listed as a parallel track by plan
\* only if every id in its dependsOn is the id of a Done task (an id no task has
\* blocks it), and when no other state holds a task next returns an unblocked
\* Backlog task if there is one, passing over blocked tasks of higher priority.
C18_DependencyBlocking ==
    LET next == findNextTask(Board)
    IN  /\ next # NoTask /\ next.task.state = "Backlog" =>
              \E i \in DOMAIN Board : Board[i] = next.task /\ Unblocked(i)
        /\ \A maxParallel \in Parallelism :
              \A t \in DOMAIN buildParallelPlan(Board, maxParallel).parallelTracks :
                  \E i \in DOMAIN Board :
                      /\ Board[i].id =
                            buildParallelPlan(Board, maxParallel).parallelTracks[t]
                      /\ Board[i].state = "Backlog"
                      /\ Unblocked(i)
        /\ (/\ \A i \in DOMAIN Board : Board[i].state \in {"Backlog", "Done"}
            /\ \E i \in DOMAIN Board : Board[i].state = "Backlog" /\ Unblocked(i))
              => /\ next # NoTask
                 /\ next.action = "start-task"
                 /\ \A i \in DOMAIN Board :
                       Board[i].state = "Backlog" /\ Unblocked(i)
                           => NotAfter(next.task, Board[i])
        /\ Printed("next") /\ Len(cli.out) = 2 /\ cli.out[2] = "start-task" =>
              \E i \in DOMAIN Board : Board[i].id = cli.out[1] /\ Unblocked(i)
        /\ Printed("plan") /\ Len(cli.out) = 3 =>
              \A t \in DOMAIN cli.out[3] :
                  \E i \in DOMAIN Board : Board[i].id = cli.out[3][t] /\ Unblocked(i)

\* next printed a P1 Backlog task while a P0 Backlog task waits for an id no
\* task has
C18_Witness ==
    /\ Printed("next")
    /\ \E i, j \in DOMAIN Board :
          /\ Board[i].state = "Backlog" /\ Board[i].priority = "P0"
          /\ Board[i].dependsOn = <<UnknownId>>
          /\ Board[j].state = "Backlog" /\ Board[j].priority = "P1"
          /\ cli.out = <<Board[j].id, "start-task">>

Ids == {Board[i].id : i \in DOMAIN Board}

\* a depends on b: some task with id a lists b, and b is the id of a task
DependsOn(a, b) ==
    \E i \in DOMAIN Board :
        /\ Board[i].id = a
        /\ \E k \in DOMAIN Board[i].dependsOn : Board[i].dependsOn[k] = b
        /\ b \in Ids

\* the ids reached from the set by at most n dependency steps
RECURSIVE Reached(_, _)
Reached(from, n) ==
    IF n = 0 THEN from
    ELSE Reached(from \cup {b \in Ids : \E a \in from : DependsOn(a, b)}, n - 1)

\* the relation dependsOn among the existing tasks has a cycle
Cyclic ==
    \E a \in Ids :
        a \in Reached({b \in Ids : DependsOn(a, b)}, Cardinality(Ids))

\* C19: plan fails with a cycle error, with exit status 1 and no plan, exactly
\* when the dependsOn relation among the existing tasks has a cycle (a task
\* that depends on itself included); dependencies on ids no task has are ignored.
C19_CycleDetection ==
    /\ Len(detectCycles(Board)) > 0 <=> Cyclic
    /\ \A maxParallel \in Parallelism :
          LET plan == buildParallelPlan(Board, maxParallel)
          IN  IF Cyclic
                THEN /\ Len(plan.cycles) > 0
                     /\ plan.primaryTaskId = <<>> /\ plan.parallelTracks = <<>>
                ELSE plan.cycles = <<>>
    /\ cli.command = "plan" =>
          IF Cyclic
            THEN /\ cli.status = 1
                 /\ cli.out[1] = "Dependency cycle(s) detected"
                 /\ Len(cli.out) = 2
            ELSE cli.status = 0

\* plan failed on a cycle of two tasks, neither depending on itself
C19_Witness ==
    /\ cli.command = "plan" /\ cli.status = 1
    /\ \E i, j \in DOMAIN Board :
          /\ i # j
          /\ Board[i].dependsOn = <<Board[j].id>>
          /\ Board[j].dependsOn = <<Board[i].id>>

----------------------------------------------------------------------------
(* Sprint board, update: vocabulary of the properties *)

\* the options of the command that ran last
Argv == cli.argv

\* the task update was run on, before and after the step
Target(tasks, id) == tasks[CHOOSE i \in DOMAIN tasks : tasks[i].id = id]

\* what an update step with --state state and the given flags, run at time
\* now, does to the times and the failure count of task before
UpdateEffects(before, after, state, flags, now) ==
    LET reset == "reset-fail-count" \in flags
    IN  /\ now >= 1
        /\ (state = "Failed" /\ ~reset) =>
              /\ after.failCount = before.failCount + 1
              /\ after.lastFailedAt = now
        /\ state = "Done" => after.completedAt = now
        /\ state = "In Progress" =>
              after.startedAt = IF before.startedAt = 0 THEN now
                                ELSE before.startedAt
        /\ state # "In Progress" => after.startedAt = before.startedAt
        /\ reset => after.failCount = 0
        /\ (~reset /\ state # "Failed") => after.failCount = before.failCount

C21_UpdateStep ==
    cli'.command = "update" =>
        UpdateEffects(Target(Board, cli'.argv.id),
                      Target(stateFile'.tasks, cli'.argv.id),
                      cli'.argv.state, cli'.argv.flags, stateFile'.updatedAt)

(* C21  Side effects of update.  update --state Failed increases failCount by
   exactly 1 and sets lastFailedAt; update --state Done sets completedAt;
   update --state "In Progress" sets startedAt only when it is empty and
   leaves an existing startedAt as it is; failCount changes in no other way
   except that --reset-fail-count sets it to 0. *)
C21_UpdateSideEffects == [][C21_UpdateStep]_vars

\* a task started at time 1 failed and went back to In Progress at time 2
C21_Witness ==
    /\ cli.command = "update" /\ Argv.state = "In Progress"
    /\ stateFile.updatedAt = 2
    /\ Target(Board, Argv.id).startedAt = 1
    /\ Target(Board, Argv.id).failCount = 1
    /\ Target(Board, Argv.id).lastFailedAt >= 1

\* every task that changes its state in the step moves along the state flow
AlongTheFlow ==
    \A i \in DOMAIN Board :
        (i \in DOMAIN stateFile'.tasks /\ stateFile'.tasks[i].state # Board[i].state)
            => <<Board[i].state, stateFile'.tasks[i].state>> \in StateFlow

(* C22  Task state flow.  A task's state changes only along Backlog -> In
   Progress -> Review -> Testing -> Done, Testing -> Failed and Failed -> In
   Progress; update moves a task along no other edge. *)
C22_StateFlow == [][AlongTheFlow]_vars

----------------------------------------------------------------------------
(* Streamer: the queue and the focus chunk *)

(* C23  Pop budget.  One processChunkQueue(maxPerFrame) call removes at most
   maxPerFrame requests from the front of the queue, the discarded ones
   counted with the built ones: a frame pops at most 3, and a call with
   budget n on the engine's state pops at most n. *)
C23_PopBudget ==
    /\ last.op = "animate" => Len(last.popped) <= FrameBudget
    /\ \A n \in 0..MaxBudget : Len(processChunkQueue(Now, n).popped) <= n

(* C24  Queued distance is current distance.  In every reachable state the
   distance field of every request in the pending queue equals the Chebyshev
   distance from its tile to the current focus chunk, also after the focus
   chunk changed while the request was queued. *)
C24_QueuedDistanceCurrent ==
    ~disposed =>
        \A i \in DOMAIN chunkQueue :
            chunkQueue[i].distance =
                ChebDistance(chunkQueue[i].chunkX, chunkQueue[i].chunkZ,
                             currentChunkX, currentChunkZ)

\* the keys of the requests in queue q
KeysOf(q) == {q[i].key : i \in DOMAIN q}

(* C25  Pending cleared on pop.  Every request popped by processChunkQueue has
   its key removed from pendingChunkKeys before the call returns, whether it
   was built or discarded; after every completed call pendingChunkKeys is
   exactly the set of the keys of the requests still queued.  Checked on the
   frames the engine runs and for every budget 0..MaxBudget on every state
   it reaches. *)
C25_PendingCleared ==
    /\ (last.op = "animate" /\ ~last.threw) => pendingChunkKeys = KeysOf(chunkQueue)
    /\ \A n \in 0..MaxBudget :
          LET r == processChunkQueue(Now, n)
              poppedKeys == {chunkQueue[i].key : i \in 1..Len(r.popped)}
          IN  /\ poppedKeys \cap r.pendingChunkKeys = {}
              /\ r.pendingChunkKeys = KeysOf(r.chunkQueue)
              /\ r.pendingChunkKeys = pendingChunkKeys \ poppedKeys

\* a frame built some requests, discarded others and left requests queued
C25_Witness ==
    /\ last.op = "animate" /\ ~last.threw
    /\ last.created > 0 /\ last.discarded > 0
    /\ Len(last.popped) = last.created + last.discarded
    /\ chunkQueue # <<>> /\ pendingChunkKeys # {}

\* world positions in the tile of chunk coordinate (cx, cz): its corners and
\* the focus itself
PointsOfChunk(cx, cz) ==
    {<<cx * chunkSize, cz * chunkSize>>,
     <<cx * chunkSize + chunkSize - 1, cz * chunkSize + chunkSize - 1>>,
     <<cx * chunkSize + chunkSize - 1, cz * chunkSize>>}
        \cup {f \in {FocusNow} : ChunkCoord(f[1]) = cx /\ ChunkCoord(f[2]) = cz}

\* the engine's fields with the cached focus chunk invalidated
Invalidated == [Now EXCEPT !.currentChunkX = NaN, !.currentChunkZ = NaN]

(* C26  Sync coalescing.  syncChunks(false) with the focus in the cached
   focus chunk leaves the resident map, the queue, pendingChunkKeys and the
   cached coordinate unchanged and disposes nothing; with the cached
   coordinate invalidated the sync is not coalesced: it caches the chunk
   coordinate of the focus. *)
C26_SyncCoalescing ==
    (~disposed /\ currentChunkX # NaN) =>
        /\ \A focus \in PointsOfChunk(currentChunkX, currentChunkZ) :
              syncChunks(Now, focus, FALSE) = Now
        /\ (last.op = "animate" /\ last.coalesced) => last.released = 0
        /\ \A focus \in {<<currentChunkX * chunkSize, currentChunkZ * chunkSize>>} :
              \E r \in {syncChunks(Invalidated, focus, FALSE)} :
                  /\ r.currentChunkX = currentChunkX
                  /\ r.currentChunkZ = currentChunkZ

\* a frame's sync was coalesced although tiles of the radius were neither
\* resident nor queued
C26_Witness ==
    /\ ~disposed /\ last.op = "animate" /\ last.coalesced
    /\ chunkQueue = <<>>
    /\ Cardinality(DOMAIN chunks) < DesiredWidth * DesiredWidth

----------------------------------------------------------------------------
(* Chunk geometry: vocabulary of the properties *)

\* the request and the geometry of the createChunk call that returned
Built == result[1]

Geometry == result[2]

\* the footprint of the geometry on one axis (1: x, 2: z), in units of 1 / lod
Lowest(axis) ==
    CHOOSE w \in {Geometry.vertices[v][axis] : v \in DOMAIN Geometry.vertices} :
        \A v \in DOMAIN Geometry.vertices : w <= Geometry.vertices[v][axis]

Highest(axis) ==
    CHOOSE w \in {Geometry.vertices[v][axis] : v \in DOMAIN Geometry.vertices} :
        \A v \in DOMAIN Geometry.vertices : w >= Geometry.vertices[v][axis]

(* C27  Focus chunk contains the focus.  For every focus point (x, z) the
   tile keyed by the chunk coordinate sync computes for it (floor(x /
   chunkSize), floor(z / chunkSize)) has a geometry footprint, as createChunk
   builds it, that contains (x, z). *)
C27_FocusInFocusTile ==
    (call.fn = "createChunk" /\ result # NoResult /\ call.args[2] = <<0, 0>>) =>
        \A axis \in {1, 2} :
            /\ Lowest(axis) <= call.args[1][axis] * Built.lod
            /\ call.args[1][axis] * Built.lod <= Highest(axis)

\* twice the signed area of the triangle of the vertices a, b, c, in the x-z
\* plane
Orientation(a, b, c) ==
    LET pa == Geometry.vertices[a]
        pb == Geometry.vertices[b]
        pc == Geometry.vertices[c]
    IN  (pb[1] - pa[1]) * (pc[2] - pa[2]) - (pb[2] - pa[2]) * (pc[1] - pa[1])

\* the six indices of grid cell (x, z)
CellIndices(x, z) ==
    [n \in 1..6 |-> Geometry.indices[(z * Built.lod + x) * 6 + n - 1]]

(* C29  Mesh topology.  For every lod of lodForDistance (52, 30, 18)
   createChunk emits (lod+1)*(lod+1) vertices and lod*lod*6 indices; grid
   cell (x, z) contributes the triangles (i0, i2, i1) and (i1, i2, i3) with
   i0 = z*(lod+1)+x, i1 = i0+1, i2 = i0+lod+1, i3 = i2+1; every triangle has
   the same winding; every index is smaller than the vertex count and than
   65536, so the 16-bit index buffer holds it as it is. *)
C29_MeshTopology ==
    (call.fn = "createChunk" /\ result # NoResult) =>
        LET lod == Built.lod
        IN  /\ lod \in {52, 30, 18}
            /\ Geometry.vertexCount = (lod + 1) * (lod + 1)
            /\ DOMAIN Geometry.vertices = 0..(Geometry.vertexCount - 1)
            /\ Geometry.indexCount = lod * lod * 6
            /\ DOMAIN Geometry.indices = 0..(lod * lod * 6 - 1)
            /\ \A k \in DOMAIN Geometry.indices :
                  Geometry.indices[k] < Geometry.vertexCount
            /\ Geometry.vertexCount <= 65536
            /\ \A x \in 0..(lod - 1) : \A z \in 0..(lod - 1) :
                  LET i0 == z * (lod + 1) + x
                      i1 == i0 + 1
                      i2 == i0 + lod + 1
                      i3 == i2 + 1
                      cell == CellIndices(x, z)
                  IN  /\ cell = <<i0, i2, i1, i1, i2, i3>>
                      /\ Orientation(cell[1], cell[2], cell[3]) =
                            Orientation(0, lod + 1, 1)
                      /\ Orientation(cell[4], cell[5], cell[6]) =
                            Orientation(cell[1], cell[2], cell[3])
                      /\ Orientation(cell[1], cell[2], cell[3]) # 0

\* the finest tile was built away from the focus tile: its last index is its
\* last vertex, 2808
C29_Witness ==
    /\ call.fn = "createChunk" /\ result # NoResult
    /\ Built.lod = 52 /\ Built.distance = 1
    /\ Geometry.indices[Geometry.indexCount - 1] = 2808
    /\ Geometry.vertexCount = 2809

----------------------------------------------------------------------------
(* Noise tables: vocabulary of the properties *)

\* the SimplexNoise2D instances of a TerrainField
NoisesOf(field) ==
    {field.continentalNoise, field.mountainNoise, field.detailNoise,
     field.humidityNoise, field.temperatureNoise}

\* perm and permMod12 hold 512 entries (index i of the source is i + 1 here);
\* the first 256 of perm are a permutation of 0..255 and the second 256 repeat
\* them; permMod12 is perm mod 12
TablesWellFormed(noise) ==
    /\ DOMAIN noise.perm = 1..512 /\ DOMAIN noise.permMod12 = 1..512
    /\ {noise.perm[i] : i \in 1..256} = 0..255
    /\ \A i \in 1..256 : noise.perm[i + 256] = noise.perm[i]
    /\ \A i \in 1..512 : noise.permMod12[i] = noise.perm[i] % 12

TablesKept ==
    \A f \in DOMAIN fields :
        f \in DOMAIN fields' /\ NoisesOf(fields'[f]) = NoisesOf(fields[f])

(* C28  Permutation table.  After construction the first 256 entries of the
   512-entry table are a permutation of 0..255, entry i + 256 equals entry i,
   permMod12[i] = perm[i] mod 12, and the tables are never written after
   construction. *)
C28_PermutationTable ==
    /\ [](\A f \in DOMAIN fields :
             \A noise \in NoisesOf(fields[f]) : TablesWellFormed(noise))
    /\ [][TablesKept]_vars

\* shuffled tables (not the identity the constructor starts from, and
\* different for the two seeds), after samples were taken from the fields
C28_Witness ==
    /\ Len(samples) >= 1
    /\ \A f \in DOMAIN fields :
           \A noise \in NoisesOf(fields[f]) :
               SubSeq(noise.perm, 1, 256) # Iota(0, 255)
    /\ fields[1].continentalNoise.perm # fields[3].continentalNoise.perm

----------------------------------------------------------------------------
(* Sprint board, plan: vocabulary of the properties *)

\* what plan printed: the primary task, its action and the parallel tracks
Primary == cli.out[1]

PrimaryAction == cli.out[2]

ParallelTracks == cli.out[3]

\* the value of --max-parallel plan ran with
MaxParallel == cli.argv[1]

\* the tasks that may run beside the primary task: waiting in Backlog, every
\* dependency Done, not depending on the primary task
Independent ==
    {i \in DOMAIN Board :
        /\ Board[i].state = "Backlog"
        /\ Board[i].id # Primary
        /\ Unblocked(i)
        /\ \A k \in DOMAIN Board[i].dependsOn : Board[i].dependsOn[k] # Primary}

\* the position on the board of the t-th track
TrackTask(t) == CHOOSE i \in DOMAIN Board : Board[i].id = ParallelTracks[t]

(* C30  sprint-board plan, parallel tracks.  parallelTracks contains at most
   maxParallel ids, never contains the primary task, and contains only Backlog
   tasks whose dependencies are all Done and that do not depend on the primary
   task, taken in priority order; it is empty whenever the primary action is
   not start-task or continue-implementation, or maxParallel is 0. *)
C30_ParallelTracks ==
    (Printed("plan") /\ Len(cli.out) = 3) =>
        /\ Len(ParallelTracks) <= MaxParallel
        /\ \A t \in DOMAIN ParallelTracks :
              /\ ParallelTracks[t] # Primary
              /\ \E i \in Independent : Board[i].id = ParallelTracks[t]
        /\ \A t, u \in DOMAIN ParallelTracks :
              t < u => /\ ParallelTracks[t] # ParallelTracks[u]
                       /\ NotAfter(Board[TrackTask(t)], Board[TrackTask(u)])
        /\ \A i \in Independent :
              \/ PrimaryAction \notin {"start-task", "continue-implementation"}
              \/ \E t \in DOMAIN ParallelTracks : TrackTask(t) = i
              \/ /\ Len(ParallelTracks) = MaxParallel
                 /\ \A t \in DOMAIN ParallelTracks :
                       NotAfter(Board[TrackTask(t)], Board[i])
        /\ (PrimaryAction \notin {"start-task", "continue-implementation"}
               \/ MaxParallel = 0)
              => ParallelTracks = <<>>

\* plan --max-parallel 1 beside a task in progress: two tasks could run beside
\* it, and the track is the one of higher priority, listed later on the board
C30_Witness ==
    /\ Printed("plan") /\ Len(cli.out) = 3
    /\ MaxParallel = 1
    /\ PrimaryAction = "continue-implementation"
    /\ Cardinality(Independent) = 2
    /\ Len(ParallelTracks) = 1
    /\ \E i \in Independent : i < TrackTask(1) /\ Board[i].priority = "P2"
    /\ Board[TrackTask(1)].priority = "P0"
    /\ \E i \in DOMAIN Board :
          Board[i].state = "Backlog" /\ Board[i].dependsOn = <<Primary>>

----------------------------------------------------------------------------
(* Sprint board, failing update: vocabulary of the properties *)

\* the update command the step ran names no task of the file, or gives a
\* --state, a --priority or (with --state Failed) a --failure-type that is not
\* one of the valid values
Rejectable(argv, before) ==
    \/ \A i \in DOMAIN before.tasks : before.tasks[i].id # argv.id
    \/ argv.state \notin {"", "Backlog", "In Progress", "Review", "Testing",
                          "Failed", "Done"}
    \/ argv.priority \notin {"", "P0", "P1", "P2", "P3"}
    \/ argv.state = "Failed" /\ argv.failureType \notin {"", "gate", "acceptance", "review"}

C31_RejectStep ==
    cli'.command = "update" =>
        /\ Rejectable(cli'.argv, stateFile) => cli'.status # 0
        /\ cli'.status # 0 =>
              /\ stateFile' = stateFile
              /\ cli'.wrote = {}
              /\ cli'.out[1] = "Error"

(* C31  sprint-board update is all-or-nothing on error.  When update fails
   (unknown task id, invalid --state, invalid --priority or invalid
   --failure-type) the command exits non-zero and the state file and the
   rendered board are left exactly as they were before the command, even if
   validation failed after the task's state or failCount had been changed in
   memory. *)
C31_UpdateAllOrNothing == [][C31_RejectStep]_vars

\* update --state Failed --failure-type flaky was rejected after updateTask had
\* marked the task Failed in memory: the file still holds the task in progress
\* with no failure counted
C31_Witness ==
    /\ cli.command = "update" /\ cli.status = 1
    /\ cli.out = <<"Error", "Invalid --failure-type">>
    /\ cli.argv.state = "Failed"
    /\ updateTaskRun(stateFile, cli.argv, cli.argv.flags, MaxClock).memory.tasks[1].state
           = "Failed"
    /\ stateFile.tasks[1].state = "In Progress"
    /\ stateFile.tasks[1].failCount = 0
    /\ stateFile.tasks[1].lastFailedAt = 0

----------------------------------------------------------------------------
(* Parallel runner: vocabulary of the properties *)

\* the workers whose track is running
RunningWorkers ==
    {w \in DOMAIN pool.workers : pool.workers[w].index # 0 /\ ~pool.workers[w].done}

(* C32  Parallel runner worker pool.  runWithWorkerPool never has more than
   maxWorkers track workers running at the same time, runs every track
   exactly once for any interleaving of worker completions, returns only
   after all tracks have finished, and places each track's result at the
   index of the track in the input list. *)
C32_WorkerPool ==
    /\ Cardinality(RunningWorkers) <= pool.maxWorkers
    /\ \A v, w \in RunningWorkers :
          pool.workers[v].index = pool.workers[w].index => v = w
    /\ \A i \in DOMAIN pool.started : pool.started[i] <= 1
    /\ \A i \in DOMAIN pool.results :
          pool.results[i] # Hole =>
              /\ pool.started[i] = 1
              /\ pool.results[i].taskId = pool.items[i].taskId
              /\ \A w \in RunningWorkers : pool.workers[w].index # i
    /\ pool.phase = "returned" =>
          /\ RunningWorkers = {}
          /\ DOMAIN pool.returned = DOMAIN pool.items
          /\ \A i \in DOMAIN pool.items :
                /\ pool.started[i] = 1
                /\ pool.returned[i] # Hole
                /\ pool.returned[i].taskId = pool.items[i].taskId

\* three tracks run by two workers: the pool has returned, with the first
\* track failed and the last passed
C32_Witness ==
    /\ pool.phase = "returned"
    /\ Len(pool.items) = 3 /\ pool.maxWorkers = 2
    /\ Len(pool.workers) = 2
    /\ ~pool.returned[1].success /\ pool.returned[3].success
    /\ pool.returned[2].timedOut

\* the tracks of the spawn command the step ran that name the task id, and
\* their results
TracksOf(id) == {t \in DOMAIN cli'.argv.tracks : cli'.argv.tracks[t].taskId = id}

C33_TransitionStep ==
    cli'.command = "spawn" =>
        /\ Len(stateFile'.tasks) = Len(stateFile.tasks)
        /\ \A i \in DOMAIN stateFile.tasks :
              LET before == stateFile.tasks[i]
                  after == stateFile'.tasks[i]
                  mine == TracksOf(before.id)
              IN  /\ after.id = before.id
                  /\ IF mine # {} /\ before.state \in {"Backlog", "In Progress"}
                       THEN /\ (\A t \in mine : cli'.out[t].success) =>
                                  /\ after.state = "Review"
                                  /\ after.reason = ""
                                  /\ after.failCount = before.failCount
                            /\ (\A t \in mine : ~cli'.out[t].success) =>
                                  /\ after.state = "Failed"
                                  /\ after.failCount = before.failCount + 1
                            /\ after.state \in {"Review", "Failed"}
                            /\ after.failCount <= before.failCount + 1
                       ELSE /\ after.state = before.state
                            /\ after.failCount = before.failCount

(* C33  Parallel runner state transitions.  applyStateTransitions changes
   only tasks that are named by a track and are in state Backlog or In
   Progress when it starts; such a task ends in Review (reason cleared) if
   its track succeeded and in Failed with failCount increased by exactly 1 if
   its track failed or timed out; tasks in Review, Testing, Failed or Done and
   tasks not named by any track keep their state and failCount. *)
C33_StateTransitions == [][C33_TransitionStep]_vars

----------------------------------------------------------------------------
(* Streamer: residency *)

(* C34  Resident and pending are disjoint.  In every reachable state without
   a build failure no chunk key is both resident and in pendingChunkKeys (or
   in the queue); consequently the check in processChunkQueue that discards a
   popped request because its key is already resident is never taken. *)
C34_ResidentPendingDisjoint ==
    /\ DOMAIN chunks \cap pendingChunkKeys = {}
    /\ DOMAIN chunks \cap QueuedKeys = {}
    /\ last.alreadyResident = 0

\* after a focus movement: a frame took requests off the queue, some dropped
\* and some built, while chunks are resident and other keys are still queued
C34_Witness ==
    /\ moves > 0 /\ last.op = "animate"
    /\ last.discarded > 0 /\ last.created > 0
    /\ chunks # EmptyMap /\ chunkQueue # <<>>
    /\ pendingChunkKeys = QueuedKeys

\* what the last handler created and released accounts for the change of the
\* resident map: no chunk was stored over another
ResidencyStep ==
    (chunks' # chunks \/ last' # last) =>
        Cardinality(DOMAIN chunks') =
            Cardinality(DOMAIN chunks) + last'.created - last'.released

(* C35  Bounded residency.  In every reachable state there is at most one
   resident chunk per chunk key and the resident map holds at most
   (2*chunkRadius+1)^2 = 49 chunks, for any sequence of focus moves (including
   jumps of many chunks), seed changes and processChunkQueue calls. *)
C35_BoundedResidency ==
    /\ [](/\ Cardinality(DOMAIN chunks) <= 49
          /\ Cardinality(DOMAIN chunks)
                 <= (2 * chunkRadius + 1) * (2 * chunkRadius + 1)
          /\ \A k \in DOMAIN chunks : chunks[k].key = k /\ chunks[k].live)
    /\ [][ResidencyStep]_vars

\* the focus has jumped two chunks or more from where an engine starts, tiles
\* left behind are gone, and a frame has filled the map to its 49 tiles
C35_Witness ==
    /\ moves > 0 /\ ~disposed
    /\ Cardinality(DOMAIN chunks) = 49
    /\ last.op = "animate" /\ last.created > 0
    /\ \E mode \in Modes :
          \/ Abs(currentChunkX - Constructed(mode).currentChunkX) >= 2
          \/ Abs(currentChunkZ - Constructed(mode).currentChunkZ) >= 2
    /\ \E k \in DOMAIN Constructed(params.mode).chunks : k \notin DOMAIN chunks

(* C36  Disposed engine is inert.  After dispose() the resident map is empty,
   and no later call of updateParams (even with a new seed) or of the frame
   callback animate creates a chunk, changes the queue or pendingChunkKeys, or
   schedules another frame; a second dispose() call changes nothing. *)
C36_DisposedInert ==
    /\ [](disposed => chunks = EmptyMap /\ ~frameHandle)
    /\ [][disposed => (disposed' /\ UNCHANGED engineVars)]_vars

\* dispose released resident chunks while requests were still queued
C36_Witness ==
    /\ disposed /\ last.op = "dispose" /\ last.released > 0
    /\ chunkQueue # <<>> /\ pendingChunkKeys # {}
    /\ params.seed = "demo"

====
